---- MODULE Spec2Model ----
(***************************************************************************)
(* State-machine model of the live execution-control subsystem of the     *)
(* CLMM liquidity-provider engine: the circuit breaker                    *)
(* (emergency/circuit_breaker.rs), the rebalance executor                 *)
(* (strategy/rebalance.rs), the lifecycle tracker (lifecycle/tracker.rs)  *)
(* and the strategy executor loop (strategy/executor.rs).                 *)
(*                                                                         *)
(* Time is counted in whole seconds.  Decimal quantities are integers in  *)
(* the unit named at their definition.                                    *)
(***************************************************************************)
EXTENDS Integers, Sequences, FiniteSets, TLC

VARIABLES
    config,             \* CircuitBreaker.config (CircuitBreakerConfig)
    breaker,            \* CircuitBreaker: state, failure_count, success_count, opened_at, manually_tripped
    now,                \* the monotonic clock read by Instant::now() / elapsed(), in seconds
    utc_now,            \* the wall clock read by chrono::Utc::now()
    clock_steps,        \* how many times the clock has been advanced (bounds the run)
    last_op,            \* name of the last CircuitBreaker method that was called
    ret,                \* value returned by the last bool-returning CircuitBreaker method
    consecutive_failures, \* history: record_failure calls since the last record_success / reset
    episode_successes,  \* history: record_success calls in the current HalfOpen episode, no failure in between
    rebalance_config,   \* RebalanceExecutor.config (RebalanceConfig)
    dry_run,            \* RebalanceExecutor.dry_run
    lifecycle,          \* LifecycleTracker: events and summaries, by position
    unique_count,       \* how many addresses Pubkey::new_unique() has handed out
    result,             \* the RebalanceResult returned by the last RebalanceExecutor::execute call
    phases,             \* the phases that call attempted, in order, each with its outcome
    last_call,          \* history: the argument of that call, and the parity of the number of calls
    executor_config,    \* StrategyExecutor.config (ExecutorConfig)
    running,            \* StrategyExecutor.running
    pc,                 \* where StrategyExecutor::start stands
    idx,                \* evaluate_all: index of the position evaluated next
    tick_results,       \* success flags of the rebalances executed in the tick in progress
    sim_run,         \* simulate_with_strategy: config, price path, volume and liquidity models, strategy
    sim,                \* simulate_with_strategy: the locals of the step loop
    sim_pc,             \* where simulate_with_strategy stands
    sim_summary,        \* the SimulationSummary it returned
    tracker,            \* PositionTracker fed the same prices and fees
    eval_call,          \* the last direct call of ThresholdRebalance::evaluate: arguments and result
    reconciler,         \* Reconciler: accounts, current_slot, and the position of the reconcile cycle in flight
    exit_mgr,           \* EmergencyExitManager: in_progress, results, and the exit_all calls in flight
    scheduler,          \* Scheduler: tasks, running flag, the loop's position and the events sent
    breaker_calls,      \* the CircuitBreaker calls in progress, by task, each at one of its steps
    tasks               \* the record_* calls of the LifecycleTracker in progress, by task

breakerVars == <<config, breaker, now, clock_steps, last_op, ret,
                 consecutive_failures, episode_successes>>

clockVars == <<utc_now>>

rebalanceVars == <<rebalance_config, dry_run, lifecycle, unique_count, result, phases, last_call>>

executorVars == <<executor_config, running, pc, idx, tick_results>>

simVars == <<sim_run, sim, sim_pc, sim_summary, tracker, eval_call>>

syncVars == <<reconciler, exit_mgr, scheduler, breaker_calls>>

vars == <<config, breaker, now, utc_now, clock_steps, last_op, ret,
          consecutive_failures, episode_successes,
          rebalance_config, dry_run, lifecycle, unique_count, result, phases,
          last_call, executor_config, running, pc, idx, tick_results,
          sim_run, sim, sim_pc, sim_summary, tracker, eval_call,
          reconciler, exit_mgr, scheduler, breaker_calls, tasks>>

-----------------------------------------------------------------------------
(* Bounds of the model *)

\* Number of clock advances in one run.
MaxAdvances == 3
\* Cap of the failure counter (it grows without limit while the breaker is Open).
MaxCount == 4
\* Number of monitored positions.
NumPositions == 2
\* Once the tracker holds this many events, or this many new positions have
\* been opened, no further rebalance is started.
MaxEvents == 1
MaxNewPositions == 1
\* Tasks that share one circuit breaker, and the calls they make in a run.
NumBreakerTasks == 2
MaxBreakerCalls == 3

-----------------------------------------------------------------------------
(* Program constants *)

\* CircuitBreakerConfig::default
DefaultMaxFailures == 3
\* max_loss_pct = Decimal::new(10, 2) = 0.10, in hundredths
DefaultMaxLossPct == 10
DefaultMaxPriorityFeeLamports == 100000000
DefaultRecoveryTimeoutSecs == 300
DefaultSuccessThreshold == 2

None == "None"

\* Option<Instant>: None is the empty sequence, Some(t) the sequence <<t>>.
NoInstant == <<>>
Some(t) == <<t>>
Elapsed(opened_at, t) == t - opened_at[1]

CircuitState == {"Closed", "Open", "HalfOpen"}

Abs(x) == IF x < 0 THEN -x ELSE x
Min(a, b) == IF a < b THEN a ELSE b

CircuitBreakerConfig(mf, rt, st) ==
    [max_failures |-> mf,
     max_loss_pct |-> DefaultMaxLossPct,
     max_priority_fee_lamports |-> DefaultMaxPriorityFeeLamports,
     recovery_timeout_secs |-> rt,
     success_threshold |-> st]

DefaultConfig ==
    CircuitBreakerConfig(DefaultMaxFailures, DefaultRecoveryTimeoutSecs,
                         DefaultSuccessThreshold)

\* Configurations the breaker is built with: the default one, the one of
\* test_circuit_breaker_trips_on_failures and scenario S5 (max_failures 2),
\* and two with a timeout of 2 s: one that trips on the first failure and
\* recovers after one success, one that needs two successes.
BreakerConfigs ==
    {DefaultConfig,
     CircuitBreakerConfig(2, DefaultRecoveryTimeoutSecs, DefaultSuccessThreshold),
     CircuitBreakerConfig(1, 2, 1),
     CircuitBreakerConfig(2, 2, DefaultSuccessThreshold)}

\* Amounts by which the clock advances between two calls.
AdvanceSteps == {1, DefaultRecoveryTimeoutSecs - 1}
\* Arguments of check_loss (hundredths) and check_priority_fee (lamports).
LossValues == {-(DefaultMaxLossPct + 1), DefaultMaxLossPct, DefaultMaxLossPct + 1}
FeeValues == {DefaultMaxPriorityFeeLamports, DefaultMaxPriorityFeeLamports + 1}

-----------------------------------------------------------------------------
(* CircuitBreaker: each method is a function of the breaker record (and of
   the clock), returning the new record, with the return value when the
   method has one. *)

\* CircuitBreaker::new
NewBreaker ==
    [state |-> "Closed", failure_count |-> 0, success_count |-> 0,
     opened_at |-> NoInstant, manually_tripped |-> FALSE]

\* CircuitBreaker::transition_to
transition_to(b, new_state) ==
    IF b.state # new_state THEN [b EXCEPT !.state = new_state] ELSE b

trip_keeps_opened_at(b, t) ==
    [transition_to(b, "Open") EXCEPT !.failure_count = 0,
        !.opened_at = IF b.opened_at = NoInstant THEN Some(t) ELSE b.opened_at]

\* CircuitBreaker::trip
trip(b, t) ==
    [transition_to(b, "Open") EXCEPT !.opened_at = Some(t), !.failure_count = 0]

is_allowed_ignores_flag(b, t) ==
    CASE b.state = "Closed" -> [ret |-> TRUE, cb |-> b]
      [] b.state = "Open" ->
            IF b.opened_at # NoInstant /\ Elapsed(b.opened_at, t) >= config.recovery_timeout_secs
            THEN [ret |-> TRUE, cb |-> transition_to(b, "HalfOpen")]
            ELSE [ret |-> FALSE, cb |-> b]
      [] b.state = "HalfOpen" -> [ret |-> TRUE, cb |-> b]

is_allowed_strict_timeout(b, t) ==
    IF b.manually_tripped THEN [ret |-> FALSE, cb |-> b]
    ELSE CASE b.state = "Closed" -> [ret |-> TRUE, cb |-> b]
           [] b.state = "Open" ->
                 IF b.opened_at # NoInstant /\ Elapsed(b.opened_at, t) > config.recovery_timeout_secs
                 THEN [ret |-> TRUE, cb |-> transition_to(b, "HalfOpen")]
                 ELSE [ret |-> FALSE, cb |-> b]
           [] b.state = "HalfOpen" -> [ret |-> TRUE, cb |-> b]

\* CircuitBreaker::is_allowed
is_allowed(b, t) ==
    IF b.manually_tripped THEN [ret |-> FALSE, cb |-> b]
    ELSE CASE b.state = "Closed" -> [ret |-> TRUE, cb |-> b]
           [] b.state = "Open" ->
                 IF b.opened_at # NoInstant
                 THEN IF Elapsed(b.opened_at, t) >= config.recovery_timeout_secs
                      THEN [ret |-> TRUE, cb |-> transition_to(b, "HalfOpen")]
                      ELSE [ret |-> FALSE, cb |-> b]
                 ELSE [ret |-> FALSE, cb |-> b]
           [] b.state = "HalfOpen" -> [ret |-> TRUE, cb |-> b]

\* CircuitBreaker::record_success
record_success(b) ==
    LET b1 == [b EXCEPT !.failure_count = 0] IN
    IF b1.state = "HalfOpen"
    THEN LET count == b1.success_count + 1
             b2 == [b1 EXCEPT !.success_count = count]
         IN IF count >= config.success_threshold
            THEN [transition_to(b2, "Closed") EXCEPT !.success_count = 0]
            ELSE b2
    ELSE b1

record_failure_trips_late(b, t) ==
    LET count == b.failure_count + 1
        b1 == [b EXCEPT !.failure_count = count, !.success_count = 0]
    IN CASE b1.state = "Closed" ->
               IF count > config.max_failures THEN trip(b1, t) ELSE b1
         [] b1.state = "HalfOpen" -> trip(b1, t)
         [] b1.state = "Open" -> b1

\* CircuitBreaker::record_failure
record_failure(b, t) ==
    LET count == b.failure_count + 1
        b1 == [b EXCEPT !.failure_count = count, !.success_count = 0]
    IN CASE b1.state = "Closed" ->
               IF count >= config.max_failures THEN trip(b1, t) ELSE b1
         [] b1.state = "HalfOpen" -> trip(b1, t)
         [] b1.state = "Open" -> b1

\* A check_loss that also trips at the threshold itself
check_loss_inclusive(b, t, loss_pct) ==
    IF Abs(loss_pct) >= config.max_loss_pct
    THEN [ret |-> FALSE, cb |-> trip(b, t)]
    ELSE [ret |-> TRUE, cb |-> b]

\* CircuitBreaker::check_loss
check_loss(b, t, loss_pct) ==
    IF Abs(loss_pct) > config.max_loss_pct
    THEN [ret |-> FALSE, cb |-> trip(b, t)]
    ELSE [ret |-> TRUE, cb |-> b]

\* CircuitBreaker::check_priority_fee
check_priority_fee(b, t, fee_lamports) ==
    IF fee_lamports > config.max_priority_fee_lamports
    THEN [ret |-> FALSE, cb |-> trip(b, t)]
    ELSE [ret |-> TRUE, cb |-> b]

\* CircuitBreaker::manual_trip
manual_trip(b, t) == trip([b EXCEPT !.manually_tripped = TRUE], t)

\* CircuitBreaker::reset_manual_trip
reset_manual_trip(b) == [b EXCEPT !.manually_tripped = FALSE]

\* A reset that leaves the manual flag as it is
reset_keeps_manual_flag(b) ==
    [transition_to(b, "Closed") EXCEPT !.failure_count = 0, !.success_count = 0,
        !.opened_at = NoInstant]

\* CircuitBreaker::reset
reset(b) ==
    [transition_to(b, "Closed") EXCEPT !.failure_count = 0, !.success_count = 0,
        !.manually_tripped = FALSE, !.opened_at = NoInstant]

-----------------------------------------------------------------------------
(* One call of a CircuitBreaker method: the breaker becomes b2, the call is
   noted in last_op / ret, and the two history counters follow the call. *)

BreakerCall(op, b2, r) ==
    /\ breaker' = b2
    /\ last_op' = op
    /\ ret' = r
    /\ consecutive_failures' =
         IF op = "record_failure" THEN Min(consecutive_failures + 1, MaxCount + 1)
         ELSE IF op \in {"record_success", "reset"} THEN 0
         ELSE consecutive_failures
    /\ episode_successes' =
         IF b2.state = "HalfOpen" /\ breaker.state # "HalfOpen" THEN 0
         ELSE IF op = "record_success" /\ breaker.state = "HalfOpen"
              THEN episode_successes + 1
         ELSE IF op = "record_failure" THEN 0
         ELSE episode_successes
    /\ UNCHANGED <<config, now, clock_steps>>

ExternalCall(op, b2, r) ==
    BreakerCall(op, b2, r) /\ UNCHANGED <<clockVars, tasks, simVars, rebalanceVars, syncVars, executorVars>>

CallIsAllowed ==
    LET r == is_allowed(breaker, now) IN ExternalCall("is_allowed", r.cb, r.ret)

CallRecordSuccess ==
    ExternalCall("record_success", record_success(breaker), ret)

CallRecordFailure ==
    /\ breaker.failure_count < MaxCount
    /\ ExternalCall("record_failure", record_failure(breaker, now), ret)

CallCheckLoss ==
    \E loss_pct \in LossValues :
        LET r == check_loss(breaker, now, loss_pct)
        IN ExternalCall("check_loss", r.cb, r.ret)

CallCheckPriorityFee ==
    \E fee \in FeeValues :
        LET r == check_priority_fee(breaker, now, fee)
        IN ExternalCall("check_priority_fee", r.cb, r.ret)

CallManualTrip ==
    ExternalCall("manual_trip", manual_trip(breaker, now), ret)

CallResetManualTrip ==
    ExternalCall("reset_manual_trip", reset_manual_trip(breaker), ret)

CallReset ==
    ExternalCall("reset", reset(breaker), ret)

\* Time passes between two calls.
AdvanceClock ==
    /\ clock_steps < MaxAdvances
    /\ \E d \in AdvanceSteps : now' = now + d
    /\ clock_steps' = clock_steps + 1
    /\ UNCHANGED <<config, breaker, last_op, ret, consecutive_failures,
                   episode_successes, clockVars, tasks, simVars, rebalanceVars, syncVars, executorVars>>

-----------------------------------------------------------------------------
(* CircuitBreaker called from several tasks at once.  The breaker is shared
   (Arc<RwLock<..>> state and opened_at, atomic counters and flag); every
   lock acquisition and every atomic operation of a method is one step, and
   steps of calls made by different tasks interleave.  The read guard of
   opened_at taken in is_allowed lives to the end of its if-let, so it is
   held over the transition to HalfOpen; every other guard is released in
   the step that took it. *)

BreakerTasks == 1..NumBreakerTasks

BreakerOps ==
    {"is_allowed", "record_success", "record_failure", "check_loss",
     "check_priority_fee", "manual_trip", "reset_manual_trip", "reset"}

\* A return value: none for a method returning (), else the bool
Unit == <<>>

NoCall == [op |-> None, pc |-> "idle", count |-> 0, ret |-> Unit]

NoBreakerCalls ==
    [calls |-> [task \in BreakerTasks |-> NoCall],
     started |-> 0,
     last_trip |-> NoInstant]     \* history: when a trip last set the state to Open

\* The call goes on at step next_pc / the call returns r
goto(b, c, next_pc) == [cb |-> b, call |-> [c EXCEPT !.pc = next_pc]]
returns(b, c, r) == [cb |-> b, call |-> [c EXCEPT !.pc = "idle", !.ret = r]]

\* Some is_allowed call holds the read guard of opened_at
opened_at_read_locked(calls) ==
    \E task \in BreakerTasks :
        calls[task].op = "is_allowed" /\ calls[task].pc = "to_half_open"

\* CircuitBreaker::is_allowed, step by step
is_allowed_step(b, c, t) ==
    CASE c.pc = "load_manual" ->
            IF b.manually_tripped THEN returns(b, c, <<FALSE>>)
            ELSE goto(b, c, "read_state")
      [] c.pc = "read_state" ->
            IF b.state = "Open" THEN goto(b, c, "read_opened_at")
            ELSE returns(b, c, <<TRUE>>)
      [] c.pc = "read_opened_at" ->
            IF /\ b.opened_at # NoInstant
               /\ Elapsed(b.opened_at, t) >= config.recovery_timeout_secs
            THEN goto(b, c, "to_half_open")
            ELSE returns(b, c, <<FALSE>>)
      [] c.pc = "to_half_open" ->
            returns(transition_to(b, "HalfOpen"), c, <<TRUE>>)

\* CircuitBreaker::record_success, step by step
record_success_step(b, c) ==
    CASE c.pc = "store_failures" ->
            goto([b EXCEPT !.failure_count = 0], c, "read_state")
      [] c.pc = "read_state" ->
            IF b.state = "HalfOpen" THEN goto(b, c, "add_success")
            ELSE returns(b, c, Unit)
      [] c.pc = "add_success" ->
            LET count == b.success_count + 1
                b1 == [b EXCEPT !.success_count = count]
            IN IF count >= config.success_threshold
               THEN goto(b1, c, "to_closed")
               ELSE returns(b1, c, Unit)
      [] c.pc = "to_closed" ->
            goto(transition_to(b, "Closed"), c, "store_successes")
      [] c.pc = "store_successes" ->
            returns([b EXCEPT !.success_count = 0], c, Unit)

\* CircuitBreaker::record_failure, step by step, up to its call of trip
record_failure_step(b, c) ==
    CASE c.pc = "add_failure" ->
            LET count == b.failure_count + 1
            IN goto([b EXCEPT !.failure_count = count],
                    [c EXCEPT !.count = count], "store_successes")
      [] c.pc = "store_successes" ->
            goto([b EXCEPT !.success_count = 0], c, "read_state")
      [] c.pc = "read_state" ->
            CASE b.state = "Closed" ->
                    IF c.count >= config.max_failures
                    THEN goto(b, [c EXCEPT !.count = 0], "trip_state")
                    ELSE returns(b, [c EXCEPT !.count = 0], Unit)
              [] b.state = "HalfOpen" -> goto(b, [c EXCEPT !.count = 0], "trip_state")
              [] b.state = "Open" -> returns(b, [c EXCEPT !.count = 0], Unit)

\* CircuitBreaker::trip, step by step, and the return of its caller
trip_step(b, c, t) ==
    CASE c.pc = "trip_state" ->
            goto(transition_to(b, "Open"), c, "trip_opened_at")
      [] c.pc = "trip_opened_at" ->
            goto([b EXCEPT !.opened_at = Some(t)], c, "trip_failures")
      [] c.pc = "trip_failures" ->
            returns([b EXCEPT !.failure_count = 0], c,
                    IF c.op \in {"check_loss", "check_priority_fee"}
                    THEN <<FALSE>> ELSE Unit)

\* CircuitBreaker::manual_trip (up to its call of trip), reset_manual_trip
manual_flag_step(b, c) ==
    IF c.op = "manual_trip"
    THEN goto([b EXCEPT !.manually_tripped = TRUE], c, "trip_state")
    ELSE returns([b EXCEPT !.manually_tripped = FALSE], c, Unit)

\* CircuitBreaker::reset, step by step
reset_step(b, c) ==
    CASE c.pc = "reset_state" ->
            goto(transition_to(b, "Closed"), c, "reset_failures")
      [] c.pc = "reset_failures" ->
            goto([b EXCEPT !.failure_count = 0], c, "reset_successes")
      [] c.pc = "reset_successes" ->
            goto([b EXCEPT !.success_count = 0], c, "reset_manual")
      [] c.pc = "reset_manual" ->
            goto([b EXCEPT !.manually_tripped = FALSE], c, "reset_opened_at")
      [] c.pc = "reset_opened_at" ->
            returns([b EXCEPT !.opened_at = NoInstant], c, Unit)

BreakerTaskFrame ==
    UNCHANGED <<config, now, clock_steps, consecutive_failures,
                episode_successes, clockVars, tasks, simVars, rebalanceVars,
                executorVars, reconciler, exit_mgr, scheduler>>

\* A call returns: it is noted in last_op, and in ret when it returns a bool.
BreakerCallReturns(finished, op, r) ==
    /\ last_op' = IF finished THEN op ELSE last_op
    /\ ret' = IF finished /\ r # Unit THEN r[1] ELSE ret

\* One step of the call of a task: the shared breaker and the call move on;
\* the transition_to(Open) of a trip is noted in last_trip.
BreakerTaskStep(task, r) ==
    LET c == breaker_calls.calls[task]
    IN /\ breaker' = r.cb
       /\ breaker_calls' =
            [breaker_calls EXCEPT
                !.calls[task] = IF r.call.pc = "idle" THEN NoCall ELSE r.call,
                !.last_trip = IF c.pc = "trip_state" THEN Some(now) ELSE @]
       /\ BreakerCallReturns(r.call.pc = "idle", c.op, r.call.ret)
       /\ BreakerTaskFrame

\* A task calls a method: the call stands before its first shared access.
\* check_loss and check_priority_fee compare their argument with the
\* configuration first, and return true at once when it is within bounds.
BeginBreakerCall(task) ==
    /\ breaker_calls.calls[task].pc = "idle"
    /\ breaker_calls.started < MaxBreakerCalls
    /\ \E op \in BreakerOps, exceeded \in BOOLEAN :
          LET first == CASE op = "is_allowed" -> "load_manual"
                         [] op = "record_success" -> "store_failures"
                         [] op = "record_failure" -> "add_failure"
                         [] op \in {"check_loss", "check_priority_fee"} ->
                                IF exceeded THEN "trip_state" ELSE "idle"
                         [] op \in {"manual_trip", "reset_manual_trip"} -> "store_manual"
                         [] op = "reset" -> "reset_state"
              c == [NoCall EXCEPT !.op = op, !.pc = first]
          IN /\ exceeded => op \in {"check_loss", "check_priority_fee"}
             /\ breaker_calls' =
                  [breaker_calls EXCEPT
                      !.started = @ + 1,
                      !.calls[task] = IF first = "idle" THEN NoCall ELSE c]
             /\ BreakerCallReturns(first = "idle", op, <<TRUE>>)
    /\ UNCHANGED breaker
    /\ BreakerTaskFrame

IsAllowedStep(task) ==
    LET c == breaker_calls.calls[task]
    IN /\ c.op = "is_allowed"
       /\ BreakerTaskStep(task, is_allowed_step(breaker, c, now))

RecordSuccessStep(task) ==
    LET c == breaker_calls.calls[task]
    IN /\ c.op = "record_success"
       /\ BreakerTaskStep(task, record_success_step(breaker, c))

RecordFailureStep(task) ==
    LET c == breaker_calls.calls[task]
    IN /\ c.op = "record_failure"
       /\ c.pc \in {"add_failure", "store_successes", "read_state"}
       /\ c.pc = "add_failure" => breaker.failure_count < MaxCount
       /\ BreakerTaskStep(task, record_failure_step(breaker, c))

\* The write of opened_at waits for the read guards to be released.
TripStep(task) ==
    LET c == breaker_calls.calls[task]
    IN /\ c.pc \in {"trip_state", "trip_opened_at", "trip_failures"}
       /\ c.pc = "trip_opened_at" => ~opened_at_read_locked(breaker_calls.calls)
       /\ BreakerTaskStep(task, trip_step(breaker, c, now))

ManualFlagStep(task) ==
    LET c == breaker_calls.calls[task]
    IN /\ c.pc = "store_manual"
       /\ BreakerTaskStep(task, manual_flag_step(breaker, c))

ResetStep(task) ==
    LET c == breaker_calls.calls[task]
    IN /\ c.op = "reset"
       /\ c.pc = "reset_opened_at" => ~opened_at_read_locked(breaker_calls.calls)
       /\ BreakerTaskStep(task, reset_step(breaker, c))

-----------------------------------------------------------------------------
(* LifecycleTracker: events and summaries by position.  A position address
   is a positive integer; the monitored positions are 1..NumPositions and
   Pubkey::new_unique() hands out NumPositions + 1, NumPositions + 2, ... *)

\* LifecycleTracker::new
NewLifecycle == [events |-> <<>>, summaries |-> <<>>]

\* LifecycleEvent::new (signature None, timestamp = chrono::Utc::now())
LifecycleEvent(event_type, position, pool, data, t) ==
    [event_type |-> event_type, position |-> position, pool |-> pool,
     timestamp |-> t, data |-> data]

\* An add_event that starts the position's list anew
add_event_replaces(events, position, event) ==
    IF position \in DOMAIN events
    THEN [events EXCEPT ![position] = <<event>>]
    ELSE events @@ (position :> <<event>>)

\* LifecycleTracker::add_event
add_event(events, position, event) ==
    IF position \in DOMAIN events
    THEN [events EXCEPT ![position] = Append(@, event)]
    ELSE events @@ (position :> <<event>>)

\* LifecycleTracker::get_events
get_events(lc, position) ==
    IF position \in DOMAIN lc.events THEN lc.events[position] ELSE <<>>

\* PositionSummary as record_position_opened creates it
NewSummary(event) ==
    [position |-> event.position, pool |-> event.pool, opened_at |-> event.timestamp,
     closed_at |-> NoInstant, total_fees_usd |-> 0, rebalance_count |-> 0,
     total_tx_costs_lamports |-> 0, net_pnl_usd |-> 0, is_open |-> TRUE]

\* What a record_* call does under the write lock of summaries, after its
\* event has been added: record_position_opened inserts a new summary,
\* record_rebalance, record_fees_collected and record_position_closed update
\* the summary if the position has one, record_liquidity_change does nothing
update_summary(summaries, event) ==
    LET position == event.position
    IN  CASE event.event_type = "PositionOpened" ->
                 IF position \in DOMAIN summaries
                 THEN [summaries EXCEPT ![position] = NewSummary(event)]
                 ELSE summaries @@ (position :> NewSummary(event))
          [] event.event_type = "Rebalanced" /\ position \in DOMAIN summaries ->
                 [summaries EXCEPT
                     ![position].rebalance_count = @ + 1,
                     ![position].total_tx_costs_lamports = @ + event.data.tx_cost_lamports]
          [] event.event_type = "FeesCollected" /\ position \in DOMAIN summaries ->
                 [summaries EXCEPT ![position].total_fees_usd = @ + event.data.fees_usd]
          [] event.event_type = "PositionClosed" /\ position \in DOMAIN summaries ->
                 [summaries EXCEPT
                     ![position].closed_at = Some(event.timestamp),
                     ![position].is_open = FALSE,
                     ![position].net_pnl_usd = event.data.final_pnl_usd]
          [] OTHER -> summaries

\* A record_* call from its event on, run without interruption
record_event(lc, event) ==
    [events |-> add_event(lc.events, event.position, event),
     summaries |-> update_summary(lc.summaries, event)]

\* LifecycleTracker::record_position_opened
record_position_opened(lc, position, pool, data, t) ==
    record_event(lc, LifecycleEvent("PositionOpened", position, pool, data, t))

\* LifecycleTracker::record_rebalance
record_rebalance(lc, position, pool, data, t) ==
    record_event(lc, LifecycleEvent("Rebalanced", position, pool, data, t))

\* LifecycleTracker::record_fees_collected
record_fees_collected(lc, position, pool, data, t) ==
    record_event(lc, LifecycleEvent("FeesCollected", position, pool, data, t))

RECURSIVE SumLen(_, _)
SumLen(f, keys) ==
    IF keys = {} THEN 0
    ELSE LET k == CHOOSE x \in keys : TRUE
         IN Len(f[k]) + SumLen(f, keys \ {k})

\* Number of events the tracker holds, all positions together.
TotalEvents(lc) == SumLen(lc.events, DOMAIN lc.events)

\* Number of events of one type the tracker holds.
EventsOfType(lc, event_type) ==
    SumLen([k \in DOMAIN lc.events |->
                SelectSeq(lc.events[k], LAMBDA e : e.event_type = event_type)],
           DOMAIN lc.events)

-----------------------------------------------------------------------------
(* Concurrent callers of the LifecycleTracker.  A record_* call builds its
   event (LifecycleEvent::new reads the wall clock), then awaits the write
   lock of events in add_event, then awaits the write lock of summaries;
   other tasks run between these steps. *)

\* Number of tasks calling the tracker.
NumTasks == 2
\* Number of record_* calls in one run.
MaxRecordCalls == 3
\* Number of ticks of the wall clock in one run.
MaxUtc == 2

Tasks == 1..NumTasks

NoTasks == [task \in Tasks |-> [pc |-> "idle", event |-> <<>>]]

\* The calls: the event type each one records and the data it is given
RecordCalls ==
    {[op |-> "record_position_opened", event_type |-> "PositionOpened",
      data |-> [liquidity |-> 3]],
     [op |-> "record_liquidity_change", event_type |-> "LiquidityIncreased",
      data |-> [is_increase |-> TRUE, liquidity_delta |-> 1]],
     [op |-> "record_liquidity_change", event_type |-> "LiquidityDecreased",
      data |-> [is_increase |-> FALSE, liquidity_delta |-> 1]],
     [op |-> "record_rebalance", event_type |-> "Rebalanced",
      data |-> [old_liquidity |-> 3, new_liquidity |-> 3,
                tx_cost_lamports |-> 5000]],
     [op |-> "record_fees_collected", event_type |-> "FeesCollected",
      data |-> [fees_a |-> 0, fees_b |-> 0, fees_usd |-> 2]],
     [op |-> "record_position_closed", event_type |-> "PositionClosed",
      data |-> [final_pnl_usd |-> 1]]}

\* Calls begun so far: events in the log and events not yet added
CallsBegun ==
    TotalEvents(lifecycle) + Cardinality({task \in Tasks : tasks[task].pc = "created"})

\* A task enters a record_* call: LifecycleEvent::new stamps the event
RecordBegin(task) ==
    /\ tasks[task].pc = "idle"
    /\ CallsBegun < MaxRecordCalls
    /\ \E call \in RecordCalls, position \in 1..NumPositions :
          tasks' = [tasks EXCEPT ![task] =
                       [pc |-> "created",
                        event |-> <<LifecycleEvent(call.event_type, position, "pool",
                                                   call.data, utc_now)>>]]
    /\ UNCHANGED <<breakerVars, clockVars, simVars, rebalanceVars, syncVars, executorVars>>

\* add_event: under the write lock of events, the event is pushed
RecordAddEvent(task) ==
    /\ tasks[task].pc = "created"
    /\ LET event == tasks[task].event[1]
       IN  lifecycle' = [lifecycle EXCEPT
                            !.events = add_event(@, event.position, event)]
    /\ tasks' = [tasks EXCEPT ![task].pc = "added"]
    /\ UNCHANGED <<breakerVars, clockVars, simVars, executorVars, rebalance_config, syncVars, dry_run,
                   unique_count, result, phases, last_call>>

\* The rest of the call: the summary is written under the write lock of
\* summaries, and the call returns
RecordFinish(task) ==
    /\ tasks[task].pc = "added"
    /\ lifecycle' = [lifecycle EXCEPT
                        !.summaries = update_summary(@, tasks[task].event[1])]
    /\ tasks' = [tasks EXCEPT ![task] = [pc |-> "idle", event |-> <<>>]]
    /\ UNCHANGED <<breakerVars, clockVars, simVars, executorVars, rebalance_config, syncVars, dry_run,
                   unique_count, result, phases, last_call>>

\* The wall clock advances
TickUtc ==
    /\ utc_now < MaxUtc
    /\ utc_now' = utc_now + 1
    /\ UNCHANGED <<breakerVars, simVars, tasks, rebalanceVars, syncVars, executorVars>>

-----------------------------------------------------------------------------
(* RebalanceExecutor *)

\* RebalanceConfig::default: min_profit_multiplier = Decimal::new(2, 0)
DefaultMinProfitMultiplier == 2
\* estimate_tx_cost: 0.01 SOL in lamports
EstimatedTxCostLamports == 10000000
\* what execute adds to tx_cost_lamports for a phase that succeeded
PhaseTxCostLamports == 5000

RebalanceConfig(collect_first) ==
    [min_profit_multiplier |-> DefaultMinProfitMultiplier,
     collect_fees_first |-> collect_first]

\* RebalanceConfig::default
DefaultRebalanceConfig == RebalanceConfig(TRUE)

\* The IL percentage at which estimate_benefit equals the required minimum.
BreakEvenIlPct == (EstimatedTxCostLamports * DefaultMinProfitMultiplier * 10) \div (5 * 1000)

\* Values of RebalanceParams.current_il_pct (whole percents, either sign) and
\* of current_liquidity.
IlValues == {0, BreakEvenIlPct, BreakEvenIlPct + 1, -(BreakEvenIlPct + 1)}
LiquidityValues == {3}
Pools == {"pool"}

\* What the five instruction calls of one execute can return: TRUE is Ok,
\* FALSE an error (collect_fees, decrease_liquidity, close_position,
\* open_position, increase_liquidity all return anyhow::Result).
\* A call that execute does not reach has no outcome: it is listed as TRUE.
PhaseOutcomes ==
    {o \in [collect_fees : BOOLEAN, decrease_liquidity : BOOLEAN,
            close_position : BOOLEAN, open_position : BOOLEAN,
            increase_liquidity : BOOLEAN] :
        /\ ~o.decrease_liquidity => o.close_position
        /\ ~(o.decrease_liquidity /\ o.close_position) => o.open_position
        /\ ~(o.decrease_liquidity /\ o.close_position /\ o.open_position)
              => o.increase_liquidity}

\* RebalanceExecutor::estimate_tx_cost
estimate_tx_cost == EstimatedTxCostLamports

\* RebalanceExecutor::estimate_benefit: |il| * 0.5 * 1000
estimate_benefit(params) == (Abs(params.current_il_pct) * 5 * 1000) \div 10

\* RebalanceExecutor::is_profitable
is_profitable(params) ==
    LET estimated_tx_cost == estimate_tx_cost
        expected_benefit == estimate_benefit(params)
    IN [is_profitable |->
            expected_benefit > estimated_tx_cost * rebalance_config.min_profit_multiplier,
        estimated_tx_cost |-> estimated_tx_cost,
        expected_benefit |-> expected_benefit,
        min_required_benefit |-> estimated_tx_cost * rebalance_config.min_profit_multiplier]

\* The RebalanceResult execute starts from.
InitialResult(position) ==
    [success |-> FALSE, old_position |-> position, new_position |-> <<>>,
     fees_collected |-> <<>>, liquidity_removed |-> 0, liquidity_added |-> 0,
     tx_cost_lamports |-> 0, error |-> None]

Attempt(x, phase, ok) == [x EXCEPT !.phases = Append(@, [phase |-> phase, ok |-> ok])]
Fail(x, phase) ==
    [Attempt(x, phase, FALSE) EXCEPT !.result.error = phase, !.returned = TRUE]

\* execute, step 1: collect fees if configured; an error is logged only.
CollectFeesPhase(x, params, outcome, t) ==
    IF ~rebalance_config.collect_fees_first THEN x
    ELSE IF outcome.collect_fees
    THEN [Attempt(x, "collect_fees", TRUE) EXCEPT
            !.result.fees_collected = <<0, 0>>,
            !.result.tx_cost_lamports = @ + PhaseTxCostLamports,
            !.lifecycle = record_fees_collected(x.lifecycle, params.position,
                              params.pool, [fees_a |-> 0, fees_b |-> 0, fees_usd |-> 0], t)]
    ELSE Attempt(x, "collect_fees", FALSE)

DecreaseLiquidityPhase_continues(x, params, outcome) ==
    IF x.returned THEN x
    ELSE IF outcome.decrease_liquidity
    THEN [Attempt(x, "decrease_liquidity", TRUE) EXCEPT
            !.result.liquidity_removed = params.current_liquidity,
            !.result.tx_cost_lamports = @ + PhaseTxCostLamports]
    ELSE Attempt(x, "decrease_liquidity", FALSE)

\* execute, step 2: decrease liquidity of the current position.
DecreaseLiquidityPhase(x, params, outcome) ==
    IF x.returned THEN x
    ELSE IF outcome.decrease_liquidity
    THEN [Attempt(x, "decrease_liquidity", TRUE) EXCEPT
            !.result.liquidity_removed = params.current_liquidity,
            !.result.tx_cost_lamports = @ + PhaseTxCostLamports]
    ELSE Fail(x, "decrease_liquidity")

\* execute, step 3: close the old position.
ClosePositionPhase(x, params, outcome) ==
    IF x.returned THEN x
    ELSE IF outcome.close_position
    THEN [Attempt(x, "close_position", TRUE) EXCEPT
            !.result.tx_cost_lamports = @ + PhaseTxCostLamports]
    ELSE Fail(x, "close_position")

\* execute, step 4: open the new position (Pubkey::new_unique()).
OpenPositionPhase(x, params, outcome) ==
    IF x.returned THEN x
    ELSE IF outcome.open_position
    THEN [Attempt(x, "open_position", TRUE) EXCEPT
            !.result.new_position = <<x.fresh>>,
            !.unique_count = @ + 1,
            !.result.tx_cost_lamports = @ + PhaseTxCostLamports]
    ELSE Fail(x, "open_position")

\* execute, step 5: increase liquidity in the new position.
IncreaseLiquidityPhase(x, params, outcome) ==
    IF x.returned THEN x
    ELSE IF outcome.increase_liquidity
    THEN [Attempt(x, "increase_liquidity", TRUE) EXCEPT
            !.result.liquidity_added = params.current_liquidity,
            !.result.tx_cost_lamports = @ + PhaseTxCostLamports]
    ELSE Fail(x, "increase_liquidity")

\* execute, end: record the rebalance under the new position, success.
RecordRebalance(x, params, t) ==
    IF x.returned THEN x
    ELSE [x EXCEPT
            !.lifecycle = record_rebalance(x.lifecycle, x.result.new_position[1],
                              params.pool,
                              [old_liquidity |-> params.current_liquidity,
                               new_liquidity |-> x.result.liquidity_added,
                               tx_cost_lamports |-> x.result.tx_cost_lamports], t),
            !.result.success = TRUE,
            !.returned = TRUE]

DryRunResult_records(x, params, t) ==
    RecordRebalance([x EXCEPT !.result.new_position = <<x.fresh>>,
                              !.result.liquidity_removed = params.current_liquidity,
                              !.result.liquidity_added = params.current_liquidity],
                    params, t)

\* execute, if self.dry_run: the result is filled in and returned.
DryRunResult(x, params, t) ==
    [x EXCEPT !.result.success = TRUE,
              !.result.liquidity_removed = params.current_liquidity,
              !.result.liquidity_added = params.current_liquidity,
              !.returned = TRUE]

\* RebalanceExecutor::execute.  lc is the tracker, uniq the number of
\* addresses handed out so far, fresh the address the next new_unique()
\* gives, t the wall clock; the value is the result with the phases attempted
\* and the tracker and address count after the call.
execute(params, outcome, lc, uniq, fresh, t) ==
    LET x0 == [result |-> InitialResult(params.position), phases |-> <<>>,
               lifecycle |-> lc, unique_count |-> uniq, fresh |-> fresh,
               returned |-> FALSE]
        profitability == is_profitable(params)
    IN IF ~profitability.is_profitable
       THEN [x0 EXCEPT !.result.error = "Rebalance not profitable", !.returned = TRUE]
       ELSE IF dry_run
       THEN DryRunResult(x0, params, t)
       ELSE LET x1 == CollectFeesPhase(x0, params, outcome, t)
                x2 == DecreaseLiquidityPhase(x1, params, outcome)
                x3 == ClosePositionPhase(x2, params, outcome)
                x4 == OpenPositionPhase(x3, params, outcome)
                x5 == IncreaseLiquidityPhase(x4, params, outcome)
            IN RecordRebalance(x5, params, t)

\* One direct call of RebalanceExecutor::execute.
ApplyExecute(params, outcome) ==
    LET x == execute(params, outcome, lifecycle, unique_count,
                     NumPositions + unique_count + 1, utc_now)
    IN /\ result' = x.result
       /\ phases' = x.phases
       /\ last_call' = [n |-> 1 - last_call.n, params |-> params]
       /\ lifecycle' = x.lifecycle
       /\ unique_count' = x.unique_count

\* RebalanceParams, without the tick bounds and the reason, which execute
\* only copies into the log line and the event payload.
RebalanceParams(position, liquidity, il_pct) ==
    [position |-> position, pool |-> "pool", current_liquidity |-> liquidity,
     current_il_pct |-> il_pct]

\* The bound on the run: room is left for the events and the addresses
\* that execute adds.
RoomLeft ==
    /\ EventsOfType(lifecycle, "FeesCollected") < MaxEvents
    /\ unique_count < MaxNewPositions

\* The outcomes to consider for a call: the instruction calls are made only
\* past the two early returns of execute.
OutcomesFor(params) ==
    IF is_profitable(params).is_profitable /\ ~dry_run
    THEN PhaseOutcomes
    ELSE {[collect_fees |-> TRUE, decrease_liquidity |-> TRUE, close_position |-> TRUE,
           open_position |-> TRUE, increase_liquidity |-> TRUE]}

\* One direct call of execute with these arguments and phase outcomes.
ExecuteWith(params, outcome) ==
    /\ RoomLeft
    /\ UNCHANGED <<breakerVars, clockVars, tasks, simVars, rebalance_config, syncVars, dry_run, executorVars>>
    /\ ApplyExecute(params, outcome)

CallExecute ==
    \E position \in 1..NumPositions, il_pct \in IlValues, liquidity \in LiquidityValues :
       LET params == RebalanceParams(position, liquidity, il_pct)
       IN \E outcome \in OutcomesFor(params) : ExecuteWith(params, outcome)

\* RebalanceExecutor::set_dry_run
CallSetDryRun ==
    /\ \E b \in BOOLEAN : dry_run' = b
    /\ UNCHANGED <<breakerVars, clockVars, tasks, simVars, rebalance_config, syncVars, lifecycle, unique_count, result,
                   phases, last_call, executorVars>>

\* LifecycleTracker::record_position_opened for a monitored position.
CallRecordPositionOpened ==
    /\ \E position \in 1..NumPositions, liquidity \in LiquidityValues :
          /\ position \notin DOMAIN lifecycle.summaries
          /\ lifecycle' = record_position_opened(lifecycle, position, "pool",
                              [liquidity |-> liquidity], utc_now)
    /\ UNCHANGED <<breakerVars, clockVars, tasks, simVars, rebalance_config, syncVars, dry_run, unique_count, result,
                   phases, last_call, executorVars>>

-----------------------------------------------------------------------------
(* StrategyExecutor *)

\* Decision (the DecisionEngine's answer for a position)
Decisions == {"Hold", "Rebalance", "Close", "IncreaseLiquidity",
              "DecreaseLiquidity", "CollectFees"}

\* Decision::requires_transaction
requires_transaction(decision) == decision # "Hold"

\* What evaluate_all returns: every error of evaluate_position is logged and
\* dropped, and the function ends with Ok(()).
evaluate_all_result == "Ok"

\* StrategyExecutor::start is called: running.store(true), the loop begins.
Start ==
    /\ pc = "stopped"
    /\ running' = TRUE
    /\ pc' = "loop"
    /\ UNCHANGED <<breakerVars, clockVars, tasks, simVars, rebalanceVars, syncVars, executor_config, idx, tick_results>>

\* StrategyExecutor::stop
Stop ==
    /\ running
    /\ running' = FALSE
    /\ UNCHANGED <<breakerVars, clockVars, tasks, simVars, rebalanceVars, syncVars, executor_config, pc, idx, tick_results>>

\* while self.running.load(..)
LoopHead ==
    /\ pc = "loop"
    /\ pc' = IF running THEN "tick" ELSE "stopped"
    /\ UNCHANGED <<breakerVars, clockVars, tasks, simVars, rebalanceVars, syncVars, executor_config, running, idx, tick_results>>

\* ticker.tick().await completes
TickFire ==
    /\ pc = "tick"
    /\ RoomLeft
    /\ pc' = "check"
    /\ UNCHANGED <<breakerVars, clockVars, tasks, simVars, rebalanceVars, syncVars, executor_config, running, idx, tick_results>>

\* if !self.circuit_breaker.is_allowed().await { continue; }
CheckBreaker ==
    /\ pc = "check"
    /\ LET r == is_allowed(breaker, now)
       IN /\ BreakerCall("is_allowed", r.cb, r.ret)
          /\ pc' = IF r.ret THEN "evaluate" ELSE "loop"
    /\ idx' = 1
    /\ tick_results' = <<>>
    /\ UNCHANGED <<clockVars, tasks, simVars, rebalanceVars, syncVars, executor_config, running>>

\* evaluate_all: evaluate_position for the next position of the snapshot;
\* execute_decision runs the rebalance when the decision is Rebalance and
\* auto_execute is set, and only logs for the other decisions.
EvaluatePosition ==
    /\ pc = "evaluate"
    /\ \E decision \in Decisions :
          IF requires_transaction(decision) /\ executor_config.auto_execute
             /\ decision = "Rebalance"
          THEN \E il_pct \in IlValues, liquidity \in LiquidityValues :
                \E outcome \in OutcomesFor(RebalanceParams(idx, liquidity, il_pct)) :
                  LET x == execute(RebalanceParams(idx, liquidity, il_pct),
                                   outcome, lifecycle, unique_count,
                                   NumPositions + unique_count + 1, utc_now)
                  IN /\ lifecycle' = x.lifecycle
                     /\ unique_count' = x.unique_count
                     /\ tick_results' = Append(tick_results, x.result.success)
          ELSE UNCHANGED <<lifecycle, unique_count, tick_results>>
    /\ idx' = idx + 1
    /\ pc' = IF idx = NumPositions THEN "record" ELSE "evaluate"
    /\ UNCHANGED <<breakerVars, clockVars, tasks, simVars, rebalance_config, syncVars, dry_run, result, phases,
                   last_call, executor_config, running>>

\* if let Err(e) = self.evaluate_all().await { record_failure } else { record_success }
RecordOutcome ==
    /\ pc = "record"
    /\ IF evaluate_all_result = "Err"
       THEN BreakerCall("record_failure", record_failure(breaker, now), ret)
       ELSE BreakerCall("record_success", record_success(breaker), ret)
    /\ pc' = "loop"
    /\ UNCHANGED <<clockVars, tasks, simVars, rebalanceVars, syncVars, executor_config, running, idx, tick_results>>

-----------------------------------------------------------------------------
(* The strategy simulator and the position tracker (simulation crate).
   Prices are in tenths, impermanent loss in basis points, money in cents,
   widths and thresholds in percent, fee rates in basis points and pool
   liquidity in units of 1_000_000. *)

Prices == {1000, 1100, 1200}

PriceRange(lower, upper) == [lower_price |-> lower, upper_price |-> upper]

InitialRanges == {PriceRange(900, 1100), PriceRange(950, 1050)}

\* is_in_range (strategy_simulator.rs): both bounds belong to the range
is_in_range(price, range) ==
    price >= range.lower_price /\ price <= range.upper_price

\* calculate_il_concentrated(...).unwrap_or(0): the values the source's formula
\* ((value_lp - value_held) / value_held, with the amounts of a position of
\* liquidity 1e18 between the square-root prices) takes at the model's ranges
\* and prices, rounded to the basis point.  Each row lists, for one entry
\* price, the loss at the prices 1000, 1100 and 1200.
IlTable ==
    (<<900, 1100>>  :> (1000 :> <<0, -232, -657>> @@ 1100 :> <<-227, 0, 0>>
                        @@ 1200 :> <<-227, 0, 0>>)) @@
    (<<950, 1050>>  :> (1000 :> <<0, -350, -779>> @@ 1100 :> <<-119, 0, 0>>
                        @@ 1200 :> <<-119, 0, 0>>)) @@
    (<<1045, 1155>> :> (1000 :> <<0, -131, -845>> @@ 1100 :> <<-361, 0, -309>>
                        @@ 1200 :> <<-898, -119, 0>>)) @@
    (<<1140, 1260>> :> (1000 :> <<0, 0, -131>> @@ 1100 :> <<0, 0, -131>>
                        @@ 1200 :> <<-809, -318, 0>>))

calculate_il_concentrated(entry_price, price, lower, upper) ==
    IlTable[<<lower, upper>>][entry_price][(price - 1000) \div 100 + 1]

\* StrategyContext
StrategyContext(price, range, entry_price, steps_since_open, steps_since_rebalance, il_pct, fees) ==
    [current_price |-> price, current_range |-> range, entry_price |-> entry_price,
     steps_since_open |-> steps_since_open,
     steps_since_rebalance |-> steps_since_rebalance,
     current_il_pct |-> il_pct, total_fees_earned |-> fees]

\* StrategyContext::is_in_range
context_is_in_range(context) ==
    is_in_range(context.current_price, context.current_range)

\* StrategyContext::price_change_from_midpoint, compared with a threshold:
\* |p - midpoint| / midpoint >= threshold_pct, the midpoint being the mean of
\* the two bounds (both sides multiplied by 2 * midpoint * 100)
price_change_from_midpoint_reaches(context, threshold_pct) ==
    LET sum == context.current_range.lower_price + context.current_range.upper_price
    IN  Abs(2 * context.current_price - sum) * 100 >= threshold_pct * sum

\* calculate_new_range: centred on the price, of total width price * width_pct
calculate_new_range(price, range_width_pct) ==
    PriceRange(price - (price * range_width_pct) \div 200,
               price + (price * range_width_pct) \div 200)

\* RebalanceAction
Hold == [type |-> "Hold"]

Rebalance(new_range, reason) ==
    [type |-> "Rebalance", new_range |-> new_range, reason |-> reason]

Close(reason) == [type |-> "Close", reason |-> reason]

\* Option<Decimal> of ThresholdRebalance.max_il_pct: None, or Some(limit)
NoLimit == <<>>

\* The strategies
StaticRange == [kind |-> "Static"]

PeriodicRebalance(rebalance_interval, range_width_pct, only_when_out_of_range) ==
    [kind |-> "Periodic", rebalance_interval |-> rebalance_interval,
     range_width_pct |-> range_width_pct,
     only_when_out_of_range |-> only_when_out_of_range]

ThresholdRebalance(threshold_pct, range_width_pct, rebalance_on_out_of_range, max_il_pct) ==
    [kind |-> "Threshold", threshold_pct |-> threshold_pct,
     range_width_pct |-> range_width_pct,
     rebalance_on_out_of_range |-> rebalance_on_out_of_range,
     max_il_pct |-> max_il_pct]

\* A static strategy that follows the price once it has left the range (10 % wide)
static_evaluate_follows(strategy, context) ==
    IF context_is_in_range(context) THEN Hold
    ELSE Rebalance(calculate_new_range(context.current_price, 10), "OutOfRange")

\* StaticRange::evaluate
static_evaluate(strategy, context) == Hold

\* PeriodicRebalance::evaluate
periodic_evaluate(strategy, context) ==
    IF context.steps_since_rebalance < strategy.rebalance_interval
    THEN Hold
    ELSE IF strategy.only_when_out_of_range /\ context_is_in_range(context)
    THEN Hold
    ELSE Rebalance(calculate_new_range(context.current_price, strategy.range_width_pct),
                   "Periodic")

\* ThresholdRebalance::evaluate with the range test made before the loss test
threshold_evaluate_range_first(strategy, context) ==
    IF ~context_is_in_range(context) /\ strategy.rebalance_on_out_of_range
    THEN Rebalance(calculate_new_range(context.current_price, strategy.range_width_pct),
                   "OutOfRange")
    ELSE IF /\ strategy.max_il_pct # NoLimit
            /\ Abs(context.current_il_pct) > Abs(strategy.max_il_pct[1])
    THEN Close("ILThreshold")
    ELSE IF price_change_from_midpoint_reaches(context, strategy.threshold_pct)
    THEN Rebalance(calculate_new_range(context.current_price, strategy.range_width_pct),
                   "PriceThreshold")
    ELSE Hold

\* ThresholdRebalance::evaluate
threshold_evaluate(strategy, context) ==
    IF /\ strategy.max_il_pct # NoLimit
       /\ Abs(context.current_il_pct) > Abs(strategy.max_il_pct[1])
    THEN Close("ILThreshold")
    ELSE IF ~context_is_in_range(context) /\ strategy.rebalance_on_out_of_range
    THEN Rebalance(calculate_new_range(context.current_price, strategy.range_width_pct),
                   "OutOfRange")
    ELSE IF price_change_from_midpoint_reaches(context, strategy.threshold_pct)
    THEN Rebalance(calculate_new_range(context.current_price, strategy.range_width_pct),
                   "PriceThreshold")
    ELSE Hold

\* RebalanceStrategy::evaluate, by implementation
evaluate(strategy, context) ==
    CASE strategy.kind = "Static" -> static_evaluate(strategy, context)
      [] strategy.kind = "Periodic" -> periodic_evaluate(strategy, context)
      [] strategy.kind = "Threshold" -> threshold_evaluate(strategy, context)

\* SimulationConfig::new: fee rate 0.3 %, pool liquidity 1_000_000, one
\* dollar per rebalance
DefaultFeeRateBps == 30
DefaultPoolLiquidity == 1
DefaultRebalanceCostCents == 100
\* Initial capital (1000 dollars) and volume per step of the simulator's tests
InitialCapitalCents == 100000
VolumePerStep == 10000

SimulationConfig(initial_capital, initial_range) ==
    [initial_capital |-> initial_capital, initial_range |-> initial_range,
     fee_rate |-> DefaultFeeRateBps, pool_liquidity |-> DefaultPoolLiquidity,
     rebalance_cost |-> DefaultRebalanceCostCents]

\* The arguments of one run: the config, the path DeterministicPricePath
\* generates, the amount of ConstantVolume, the liquidity of
\* ConstantLiquidity and the strategy
SimRun(cfg, prices, volume, liquidity, strategy) ==
    [config |-> cfg, prices |-> prices, volume |-> volume,
     liquidity |-> liquidity, strategy |-> strategy]

\* SimulationEvent: its type, step and price; amount is the fee of a
\* FeeCollection, the cost of a Rebalance, the final value of a PositionClosed
SimulationEvent(event_type, step, price, amount, il_pct) ==
    [event_type |-> event_type, step |-> step, price |-> price,
     amount |-> amount, il_pct |-> il_pct]

\* The fee of one in-range step
step_fees(cfg, volume, pool_liquidity) ==
    IF pool_liquidity > 0
    THEN (volume * cfg.fee_rate * cfg.pool_liquidity) \div (100 * pool_liquidity)
    ELSE 0

\* Value computed with the rebalance costs left out
position_value_without_cost(initial_capital, il_pct, fees, rebalance_cost) ==
    initial_capital - (initial_capital * Abs(il_pct)) \div 10000 + fees

\* initial_capital - initial_capital * |il| + cumulative_fees - total_rebalance_cost
position_value(initial_capital, il_pct, fees, rebalance_cost) ==
    initial_capital - (initial_capital * Abs(il_pct)) \div 10000 + fees - rebalance_cost

\* The range the fee test would use if fees were settled before the decision
fee_range_before_decision(old_range, current_range) == old_range

\* The range the fee test uses: current_range after the match on the action
fee_range(old_range, current_range) == current_range

\* A rebalance that is not charged
charge_rebalance_free(total_rebalance_cost, cfg) == total_rebalance_cost

\* total_rebalance_cost += config.rebalance_cost
charge_rebalance(total_rebalance_cost, cfg) == total_rebalance_cost + cfg.rebalance_cost

\* The locals of simulate_with_strategy when the loop is entered
SimLocals(run) ==
    [step |-> 0,
     closed |-> FALSE,
     current_range |-> run.config.initial_range,
     cumulative_fees |-> 0,
     steps_in_range |-> 0,
     max_il |-> 0,
     rebalance_count |-> 0,
     total_rebalance_cost |-> 0,
     steps_since_rebalance |-> 0,
     was_in_range |-> is_in_range(run.prices[1], run.config.initial_range),
     pnl_history |-> <<>>,
     il_history |-> <<>>,
     fee_history |-> <<>>,
     range_history |-> << <<0, run.config.initial_range>> >>,
     events |-> << SimulationEvent("PositionOpened", 0, run.prices[1],
                                   run.config.initial_capital, 0) >>]

\* The locals before simulate_with_strategy is entered, and after an empty path
NoLocals ==
    [step |-> 0, closed |-> FALSE, current_range |-> PriceRange(0, 0),
     cumulative_fees |-> 0, steps_in_range |-> 0, max_il |-> 0,
     rebalance_count |-> 0, total_rebalance_cost |-> 0,
     steps_since_rebalance |-> 0, was_in_range |-> FALSE,
     pnl_history |-> <<>>, il_history |-> <<>>, fee_history |-> <<>>,
     range_history |-> <<>>, events |-> <<>>]

\* One iteration of the loop over (step, price)
LoopBody(run, s) ==
    LET cfg == run.config
        step == s.step
        price == run.prices[step + 1]
        entry_price == run.prices[1]
        in_range == is_in_range(price, s.current_range)
        events1 ==
            IF in_range /\ ~s.was_in_range
            THEN Append(s.events, SimulationEvent("BackInRange", step, price, 0, 0))
            ELSE IF ~in_range /\ s.was_in_range
            THEN Append(s.events, SimulationEvent("OutOfRange", step, price, 0, 0))
            ELSE s.events
        il_decimal == calculate_il_concentrated(entry_price, price,
                          s.current_range.lower_price, s.current_range.upper_price)
        max_il == IF il_decimal < s.max_il THEN il_decimal ELSE s.max_il
        context == StrategyContext(price, s.current_range, entry_price, step,
                                   s.steps_since_rebalance, il_decimal, s.cumulative_fees)
        action == evaluate(run.strategy, context)
    IN  IF action.type = "Close"
        THEN [s EXCEPT
                !.closed = TRUE,
                !.was_in_range = in_range,
                !.max_il = max_il,
                !.events = Append(events1,
                    SimulationEvent("PositionClosed", step, price,
                        position_value(cfg.initial_capital, il_decimal,
                                       s.cumulative_fees, s.total_rebalance_cost),
                        il_decimal))]
        ELSE
        LET rebalanced == action.type = "Rebalance"
            current_range == IF rebalanced THEN action.new_range ELSE s.current_range
            total_rebalance_cost ==
                IF rebalanced THEN charge_rebalance(s.total_rebalance_cost, cfg)
                ELSE s.total_rebalance_cost
            events2 ==
                IF rebalanced
                THEN Append(events1, SimulationEvent("Rebalance", step, price,
                                                     cfg.rebalance_cost, 0))
                ELSE events1
            in_range_now == is_in_range(price, fee_range(s.current_range, current_range))
            fees == IF in_range_now THEN step_fees(cfg, run.volume, run.liquidity) ELSE 0
            cumulative_fees == s.cumulative_fees + fees
            events3 ==
                IF in_range_now /\ fees > 0
                THEN Append(events2, SimulationEvent("FeeCollection", step, price, fees, 0))
                ELSE events2
            value == position_value(cfg.initial_capital, il_decimal,
                                    cumulative_fees, total_rebalance_cost)
        IN  [s EXCEPT
                !.step = step + 1,
                !.current_range = current_range,
                !.rebalance_count = IF rebalanced THEN @ + 1 ELSE @,
                !.total_rebalance_cost = total_rebalance_cost,
                !.steps_since_rebalance = IF rebalanced THEN 0 ELSE @ + 1,
                !.range_history = IF rebalanced THEN Append(@, <<step, current_range>>) ELSE @,
                !.was_in_range = IF rebalanced THEN is_in_range(price, current_range)
                                 ELSE in_range,
                !.max_il = max_il,
                !.steps_in_range = IF in_range_now THEN @ + 1 ELSE @,
                !.cumulative_fees = cumulative_fees,
                !.events = events3,
                !.pnl_history = Append(@, value - cfg.initial_capital),
                !.il_history = Append(@, il_decimal),
                !.fee_history = Append(@, cumulative_fees)]

HasEvent(events, event_type) ==
    \E i \in 1..Len(events) : events[i].event_type = event_type

\* empty_result: the summary of a run over an empty path
empty_result(cfg) ==
    [entry_price |-> 0, final_price |-> 0, total_steps |-> 0, steps_in_range |-> 0,
     final_value |-> cfg.initial_capital, total_fees |-> 0, final_il_pct |-> 0,
     net_pnl |-> 0, rebalance_count |-> 0, total_rebalance_cost |-> 0,
     max_il_pct |-> 0]

\* What follows the loop: the SimulationSummary
Summarize(run, s) ==
    LET cfg == run.config
        entry_price == run.prices[1]
        final_price == run.prices[Len(run.prices)]
        final_il_decimal == calculate_il_concentrated(entry_price, final_price,
                                s.current_range.lower_price, s.current_range.upper_price)
        final_value == position_value(cfg.initial_capital, final_il_decimal,
                                      s.cumulative_fees, s.total_rebalance_cost)
    IN  [entry_price |-> entry_price, final_price |-> final_price,
         total_steps |-> Len(run.prices), steps_in_range |-> s.steps_in_range,
         final_value |-> final_value, total_fees |-> s.cumulative_fees,
         final_il_pct |-> final_il_decimal,
         net_pnl |-> final_value - cfg.initial_capital,
         rebalance_count |-> s.rebalance_count,
         total_rebalance_cost |-> s.total_rebalance_cost,
         max_il_pct |-> s.max_il]

\* What follows the loop: the PositionClosed event, if the log has none
FinalEvents(run, s) ==
    IF HasEvent(s.events, "PositionClosed")
    THEN s.events
    ELSE LET sm == Summarize(run, s)
         IN  Append(s.events, SimulationEvent("PositionClosed", Len(run.prices),
                                  sm.final_price, sm.final_value, sm.final_il_pct))

\* PositionTracker::new
NewPositionTracker(initial_capital, entry_price, initial_range, rebalance_cost) ==
    [initial_capital |-> initial_capital,
     entry_price |-> entry_price,
     current_range |-> initial_range,
     snapshots |-> <<>>,
     steps_since_rebalance |-> 0,
     rebalance_count |-> 0,
     total_rebalance_cost |-> 0,
     rebalance_cost |-> rebalance_cost,
     cumulative_fees |-> 0,
     current_step |-> 0]

\* PositionTracker::execute_rebalance
execute_rebalance(t, new_range) ==
    [t EXCEPT !.current_range = new_range,
              !.steps_since_rebalance = 0,
              !.rebalance_count = @ + 1,
              !.total_rebalance_cost = @ + t.rebalance_cost]

\* The action of a snapshot whose step held
NoAction == [type |-> "None"]

\* PositionTracker::record_step(price, step_fees, Some(strategy))
record_step(t, price, fees, strategy) ==
    LET t1 == [t EXCEPT !.current_step = @ + 1,
                        !.steps_since_rebalance = @ + 1,
                        !.cumulative_fees = @ + fees]
        il_pct == calculate_il_concentrated(t1.entry_price, price,
                      t1.current_range.lower_price, t1.current_range.upper_price)
        value == t1.initial_capital + (t1.initial_capital * il_pct) \div 10000
                     + t1.cumulative_fees - t1.total_rebalance_cost
        in_range == /\ price >= t1.current_range.lower_price
                    /\ price <= t1.current_range.upper_price
        context == StrategyContext(price, t1.current_range, t1.entry_price,
                                   t1.current_step, t1.steps_since_rebalance,
                                   il_pct, t1.cumulative_fees)
        action == evaluate(strategy, context)
        t2 == IF action.type = "Rebalance"
              THEN execute_rebalance(t1, action.new_range)
              ELSE t1
        final_action == IF action.type = "Hold" THEN NoAction ELSE action
    IN  [t2 EXCEPT !.snapshots = Append(@,
            [step |-> t1.current_step, price |-> price, range |-> t2.current_range,
             in_range |-> in_range, cumulative_fees |-> t1.cumulative_fees,
             il_pct |-> il_pct, position_value_usd |-> value,
             net_pnl |-> value - t1.initial_capital, action |-> final_action])]

\* PositionTracker::summary
tracker_summary(t) ==
    LET n == Len(t.snapshots)
    IN  [total_steps |-> n,
         final_value |-> IF n > 0 THEN t.snapshots[n].position_value_usd
                         ELSE t.initial_capital,
         final_pnl |-> IF n > 0 THEN t.snapshots[n].net_pnl ELSE 0,
         final_il_pct |-> IF n > 0 THEN t.snapshots[n].il_pct ELSE 0,
         total_fees |-> t.cumulative_fees,
         rebalance_count |-> t.rebalance_count,
         total_rebalance_cost |-> t.total_rebalance_cost]

\* Longest price path of a run.
MaxSteps == 4
\* Rebalance intervals of the periodic strategies.
MaxInterval == 2

\* The periodic test of the simulator: 20 steps at the price 100, a
\* rebalance every 5 steps into a range 10 % wide
PeriodicTestSteps == 20
PeriodicTestInterval == 5
RangeWidthPct == 10

PeriodicTestRun ==
    SimRun(SimulationConfig(InitialCapitalCents, PriceRange(900, 1100)),
           [i \in 1..PeriodicTestSteps |-> 1000], VolumePerStep, DefaultPoolLiquidity,
           PeriodicRebalance(PeriodicTestInterval, RangeWidthPct, FALSE))

PricePaths == UNION {[1..n -> Prices] : n \in 0..MaxSteps}

PoolLiquidities == {0, 1, 2}

ThresholdPcts == {5, 50}

MaxIlLimits == {NoLimit, Some(300)}

Strategies ==
    {StaticRange}
    \cup {PeriodicRebalance(n, RangeWidthPct, o) :
             n \in 1..MaxInterval, o \in BOOLEAN}
    \cup {ThresholdRebalance(th[1], RangeWidthPct, th[2], th[3]) :
             th \in ThresholdPcts \X BOOLEAN \X MaxIlLimits}

SimRuns ==
    {SimRun(SimulationConfig(InitialCapitalCents, x[1]), x[2], VolumePerStep, x[3], x[4]) :
        x \in InitialRanges \X PricePaths \X PoolLiquidities \X Strategies}
    \cup {PeriodicTestRun}

NoSummary ==
    [entry_price |-> 0, final_price |-> 0, total_steps |-> 0, steps_in_range |-> 0,
     final_value |-> 0, total_fees |-> 0, final_il_pct |-> 0,
     net_pnl |-> 0, rebalance_count |-> 0, total_rebalance_cost |-> 0,
     max_il_pct |-> 0]

\* simulate_with_strategy is entered: the path is generated, an empty path
\* returns empty_result, otherwise the locals are set up
SimStart ==
    /\ sim_pc = "start"
    /\ IF Len(sim_run.prices) = 0
       THEN /\ sim_summary' = empty_result(sim_run.config)
            /\ sim' = NoLocals
            /\ sim_pc' = "done"
       ELSE /\ sim' = SimLocals(sim_run)
            /\ sim_pc' = "loop"
            /\ UNCHANGED sim_summary
    /\ UNCHANGED <<breakerVars, clockVars, tasks, rebalanceVars, syncVars, executorVars, sim_run, tracker,
                   eval_call>>

\* One step of the loop
SimStep ==
    /\ sim_pc = "loop"
    /\ ~sim.closed
    /\ sim.step < Len(sim_run.prices)
    /\ sim' = LoopBody(sim_run, sim)
    /\ UNCHANGED <<breakerVars, clockVars, tasks, rebalanceVars, syncVars, executorVars, sim_run, sim_pc,
                   sim_summary, tracker, eval_call>>

\* The loop is left, by break or at the end of the path: the summary is
\* computed and returned
SimFinish ==
    /\ sim_pc = "loop"
    /\ sim.closed \/ sim.step = Len(sim_run.prices)
    /\ sim_summary' = Summarize(sim_run, sim)
    /\ sim' = [sim EXCEPT !.events = FinalEvents(sim_run, sim)]
    /\ sim_pc' = "done"
    /\ UNCHANGED <<breakerVars, clockVars, tasks, rebalanceVars, syncVars, executorVars, sim_run, tracker,
                   eval_call>>

\* Number of steps the simulator's loop entered
StepsEntered(s) == Len(s.fee_history) + (IF s.closed THEN 1 ELSE 0)

\* The fee the simulator accrued in step k (0 in the step that closed)
FeeOfStep(s, k) ==
    IF k + 1 > Len(s.fee_history) THEN 0
    ELSE s.fee_history[k + 1] - (IF k = 0 THEN 0 ELSE s.fee_history[k])

\* The tracker is fed the next step of the same run: the same price, the
\* fee the simulator accrued in that step, the same strategy
TrackerRecordStep ==
    /\ sim_pc = "done"
    /\ tracker.current_step < StepsEntered(sim)
    /\ tracker' = record_step(tracker, sim_run.prices[tracker.current_step + 1],
                              FeeOfStep(sim, tracker.current_step), sim_run.strategy)
    /\ UNCHANGED <<breakerVars, clockVars, tasks, rebalanceVars, syncVars, executorVars, sim_run, sim,
                   sim_pc, sim_summary, eval_call>>

\* Arguments of the direct calls of ThresholdRebalance::evaluate: the
\* strategies and contexts of its tests (range 90-110, width 20 %) and
\* values around them
EvalPrices == {800, 900, 1000, 1040, 1050, 1080, 1100, 1200}

EvalIlValues == {0, -100, -300, -1000, -1001, -1500, 1500}

EvalThresholdPcts == {5, 10, 50}

EvalMaxIlLimits == {NoLimit, Some(300), Some(1000)}

EvalStrategies ==
    {ThresholdRebalance(x[1], 20, x[2], x[3]) :
        x \in EvalThresholdPcts \X BOOLEAN \X EvalMaxIlLimits}

\* create_context of the tests
create_context(price, il_pct) ==
    StrategyContext(price, PriceRange(900, 1100), 1000, 100, 50, il_pct, 5000)

EvalCall(called, strategy, context, action) ==
    [called |-> called, strategy |-> strategy, context |-> context, action |-> action]

NoEvalCall ==
    EvalCall(FALSE, ThresholdRebalance(5, 20, TRUE, NoLimit), create_context(1000, 0), Hold)

\* A direct call of ThresholdRebalance::evaluate
CallThresholdEvaluate ==
    /\ \E strategy \in EvalStrategies, price \in EvalPrices, il_pct \in EvalIlValues :
          LET context == create_context(price, il_pct)
          IN  eval_call' = EvalCall(TRUE, strategy, context,
                                    threshold_evaluate(strategy, context))
    /\ UNCHANGED <<breakerVars, clockVars, tasks, rebalanceVars, syncVars, executorVars, sim_run, sim,
                   sim_pc, sim_summary, tracker>>

-----------------------------------------------------------------------------
(* Reconciler: push updates and the pull cycle over the tracked accounts *)

\* Accounts that callers track
NumAddresses == 2
\* ReconcilerConfig::max_age_secs of the reconciler under check
ModelMaxAgeSecs == 1
\* ReconcilerConfig::max_failures of the reconciler under check
ModelMaxFailures == 2
\* Highest slot the chain reaches
MaxSlot == 1
\* Highest value of the monotonic clock read by the reconciler
MaxInstant == 2
\* Reconcile cycles in a run
MaxCycles == 2
\* track_account, untrack_account and process_update calls in a run
MaxSyncCalls == 3

Addresses == 1..NumAddresses

ReconcileStatus == {"InSync", "NeedsUpdate", "Updating", "Failed"}

ReconcilerConfig(max_age_secs, max_failures) == [max_age_secs |-> max_age_secs, max_failures |-> max_failures]

\* HashMap::get of an address that is not tracked
NoAccount == <<>>

AccountState(address, last_slot, last_update, status, failure_count) == [address |-> address, last_slot |-> last_slot, last_update |-> last_update, status |-> status, failure_count |-> failure_count]

AccountUpdate(address, slot) == [address |-> address, slot |-> slot]

\* Instant::duration_since: zero when `earlier` is later than `instant`
duration_since(instant, earlier) == IF instant >= earlier THEN instant - earlier ELSE 0

track_account(accounts, address, instant) ==
    [accounts EXCEPT ![address] = Some(AccountState(address, 0, instant, "NeedsUpdate", 0))]

untrack_account(accounts, address) == [accounts EXCEPT ![address] = NoAccount]

\* A push update that leaves failure_count as it was
process_update_keeps_failures(accounts, update, instant) ==
    IF accounts[update.address] # NoAccount
    THEN [accounts EXCEPT ![update.address] =
              Some(AccountState(update.address, update.slot, instant, "InSync",
                                accounts[update.address][1].failure_count))]
    ELSE accounts

process_update(accounts, update, instant) ==
    IF accounts[update.address] # NoAccount
    THEN [accounts EXCEPT ![update.address] =
              Some(AccountState(update.address, update.slot, instant, "InSync", 0))]
    ELSE accounts

\* reconcile: let needs_reconcile = { .. }
needs_reconcile(accounts, address, instant, cfg) ==
    IF accounts[address] # NoAccount
    THEN LET state == accounts[address][1]
             age == duration_since(instant, state.last_update)
         IN  age > cfg.max_age_secs \/ state.status = "NeedsUpdate"
    ELSE FALSE

\* get_stale_accounts
get_stale_accounts(accounts, instant, cfg) ==
    {address \in Addresses :
        /\ accounts[address] # NoAccount
        /\ LET state == accounts[address][1]
           IN  \/ duration_since(instant, state.last_update) > cfg.max_age_secs
               \/ state.status # "InSync"}

get_failed_accounts(accounts) ==
    {address \in Addresses :
        accounts[address] # NoAccount /\ accounts[address][1].status = "Failed"}

\* reconcile_account, first block: mark as updating
mark_updating(accounts, address) ==
    IF accounts[address] # NoAccount
    THEN [accounts EXCEPT ![address] = Some([accounts[address][1] EXCEPT !.status = "Updating"])]
    ELSE accounts

\* reconcile_account, last block, after get_account returned Ok
update_state(accounts, address, slot, instant) ==
    IF accounts[address] # NoAccount
    THEN [accounts EXCEPT ![address] = Some(AccountState(address, slot, instant, "InSync", 0))]
    ELSE accounts

\* reconcile, Err arm: update failure count
update_failure_count(accounts, address, cfg) ==
    IF accounts[address] # NoAccount
    THEN LET state == accounts[address][1]
             failure_count == state.failure_count + 1
         IN  [accounts EXCEPT ![address] =
                  Some([state EXCEPT !.failure_count = failure_count,
                                     !.status = IF failure_count >= cfg.max_failures
                                                THEN "Failed" ELSE state.status])]
    ELSE accounts

ReconcileResult(current_slot, in_sync, reconciled, failed) == [current_slot |-> current_slot, in_sync |-> in_sync, reconciled |-> reconciled, failed |-> failed]

\* Locals of reconcile: current_slot, now, the addresses still to visit, the
\* address being reconciled (0 when none) and the result so far
NoCycle == [current_slot |-> 0, now |-> 0, addresses |-> <<>>, address |-> 0, result |-> ReconcileResult(0, 0, 0, 0)]

\* History: the last operation on the reconciler, the address it named, the
\* account's state before it, and the needs_reconcile it computed
SyncOp(op, address, before, needs) == [op |-> op, address |-> address, before |-> before, needs |-> needs]

NoSyncOp == SyncOp("none", 0, NoAccount, FALSE)

\* Reconciler::new, with the clock and the chain the reconciler reads
NewReconciler(cfg) ==
    [config |-> cfg,
     accounts |-> [address \in Addresses |-> NoAccount],
     current_slot |-> 0,
     instant |-> 0,
     chain_slot |-> 0,
     pc |-> "idle",
     cycle |-> NoCycle,
     result |-> ReconcileResult(0, 0, 0, 0),
     cycles |-> 0,
     calls |-> 0,
     last_op |-> NoSyncOp]

\* The orders in which HashMap::keys can yield the tracked addresses
KeyOrders(accounts) ==
    LET keys == {address \in Addresses : accounts[address] # NoAccount}
    IN  {order \in UNION {[1..n -> keys] : n \in 0..NumAddresses} :
            /\ Len(order) = Cardinality(keys)
            /\ \A i, j \in 1..Len(order) : i # j => order[i] # order[j]}

SyncFrame == UNCHANGED <<breakerVars, clockVars, tasks, simVars, rebalanceVars, executorVars, exit_mgr, scheduler, breaker_calls>>

TrackAccount ==
    /\ reconciler.calls < MaxSyncCalls
    /\ \E address \in Addresses :
          reconciler' = [reconciler EXCEPT
              !.accounts = track_account(@, address, reconciler.instant),
              !.calls = @ + 1,
              !.last_op = SyncOp("track_account", address, reconciler.accounts[address], FALSE)]
    /\ SyncFrame

UntrackAccount ==
    /\ reconciler.calls < MaxSyncCalls
    /\ \E address \in Addresses :
          reconciler' = [reconciler EXCEPT
              !.accounts = untrack_account(@, address),
              !.calls = @ + 1,
              !.last_op = SyncOp("untrack_account", address, reconciler.accounts[address], FALSE)]
    /\ SyncFrame

\* A push update from the account listener; notifications arrive in slot
\* order, each with the slot of the chain when it was produced
ProcessUpdate ==
    /\ reconciler.calls < MaxSyncCalls
    /\ \E address \in Addresses :
          LET update == AccountUpdate(address, reconciler.chain_slot)
          IN  reconciler' = [reconciler EXCEPT
                  !.accounts = process_update(@, update, reconciler.instant),
                  !.calls = @ + 1,
                  !.last_op = SyncOp("process_update", address, reconciler.accounts[address], FALSE)]
    /\ SyncFrame

\* The chain produces a slot
AdvanceSlot ==
    /\ reconciler.chain_slot < MaxSlot
    /\ reconciler' = [reconciler EXCEPT !.chain_slot = @ + 1,
                                        !.last_op = SyncOp("slot", 0, NoAccount, FALSE)]
    /\ SyncFrame

\* A second passes on the monotonic clock
AdvanceInstant ==
    /\ reconciler.instant < MaxInstant
    /\ reconciler' = [reconciler EXCEPT !.instant = @ + 1,
                                        !.last_op = SyncOp("instant", 0, NoAccount, FALSE)]
    /\ SyncFrame

\* reconcile up to the loop: fetch_current_slot (get_slot, or 0 when it
\* fails), store it, read the clock, copy the keys
ReconcileBegin ==
    /\ reconciler.pc = "idle"
    /\ reconciler.cycles < MaxCycles
    /\ \E current_slot \in {reconciler.chain_slot, 0}, addresses \in KeyOrders(reconciler.accounts) :
          reconciler' = [reconciler EXCEPT
              !.current_slot = current_slot,
              !.cycle = [current_slot |-> current_slot, now |-> reconciler.instant,
                         addresses |-> addresses, address |-> 0,
                         result |-> ReconcileResult(0, 0, 0, 0)],
              !.pc = "loop",
              !.cycles = @ + 1,
              !.last_op = SyncOp("reconcile", 0, NoAccount, FALSE)]
    /\ SyncFrame

\* One pass of the for loop up to the if: needs_reconcile under the read lock
ReconcileCheck ==
    /\ reconciler.pc = "loop"
    /\ reconciler.cycle.addresses # <<>>
    /\ LET address == Head(reconciler.cycle.addresses)
           needs == needs_reconcile(reconciler.accounts, address, reconciler.cycle.now,
                                    reconciler.config)
       IN  reconciler' = [reconciler EXCEPT
               !.cycle.addresses = Tail(@),
               !.cycle.address = IF needs THEN address ELSE 0,
               !.cycle.result.in_sync = IF needs THEN @ ELSE @ + 1,
               !.pc = IF needs THEN "mark" ELSE "loop",
               !.last_op = SyncOp("check", address, reconciler.accounts[address], needs)]
    /\ SyncFrame

\* reconcile_account: mark as updating, under the write lock
ReconcileMark ==
    /\ reconciler.pc = "mark"
    /\ reconciler' = [reconciler EXCEPT
           !.accounts = mark_updating(@, reconciler.cycle.address),
           !.pc = "fetch",
           !.last_op = SyncOp("mark", reconciler.cycle.address,
                              reconciler.accounts[reconciler.cycle.address], TRUE)]
    /\ SyncFrame

\* reconcile_account: get_account returned Ok; update state under the write
\* lock with the slot stored in self.current_slot; reconciled += 1
ReconcileFetchOk ==
    /\ reconciler.pc = "fetch"
    /\ reconciler' = [reconciler EXCEPT
           !.accounts = update_state(@, reconciler.cycle.address, reconciler.current_slot,
                                     reconciler.instant),
           !.cycle.result.reconciled = @ + 1,
           !.cycle.address = 0,
           !.pc = "loop",
           !.last_op = SyncOp("fetch_ok", reconciler.cycle.address,
                              reconciler.accounts[reconciler.cycle.address], TRUE)]
    /\ SyncFrame

\* reconcile_account: get_account returned Err; the Err arm of reconcile
ReconcileFetchErr ==
    /\ reconciler.pc = "fetch"
    /\ reconciler' = [reconciler EXCEPT
           !.accounts = update_failure_count(@, reconciler.cycle.address, reconciler.config),
           !.cycle.result.failed = @ + 1,
           !.cycle.address = 0,
           !.pc = "loop",
           !.last_op = SyncOp("fetch_err", reconciler.cycle.address,
                              reconciler.accounts[reconciler.cycle.address], TRUE)]
    /\ SyncFrame

\* reconcile after the loop: result.current_slot = current_slot; result
ReconcileFinish ==
    /\ reconciler.pc = "loop"
    /\ reconciler.cycle.addresses = <<>>
    /\ reconciler' = [reconciler EXCEPT
           !.result = [reconciler.cycle.result EXCEPT !.current_slot = reconciler.cycle.current_slot],
           !.cycle = NoCycle,
           !.pc = "idle",
           !.last_op = SyncOp("return", 0, NoAccount, FALSE)]
    /\ SyncFrame

-----------------------------------------------------------------------------
(* EmergencyExitManager: exit_all sweeps and exit_position *)

\* Tasks that call exit_all on the shared manager
NumCallers == 2
\* Positions the monitor can hold
NumExitPositions == 2
\* exit_all calls in a run
MaxExitCalls == 3
\* Changes of the monitored positions in a run
MaxMonitorChanges == 1

Callers == 1..NumCallers

ExitPositions == 1..NumExitPositions

ExitStatus == {"Pending", "CollectingFees", "DecreasingLiquidity", "ClosingPosition", "Completed", "Failed"}

\* Outcomes of collect_fees, decrease_all_liquidity and close_position
ExitOutcomes == {"Ok", "Err"}

ExitResult(position, status, error, fees_collected, liquidity_removed) == [position |-> position, status |-> status, error |-> error, fees_collected |-> fees_collected, liquidity_removed |-> liquidity_removed]

EmergencyExitConfig(collect_fees) == [collect_fees |-> collect_fees]

\* PositionMonitor::get_positions: the monitored positions, in its order
PositionLists ==
    {positions \in UNION {[1..n -> ExitPositions] : n \in 0..NumExitPositions} :
        \A i, j \in 1..Len(positions) : i # j => positions[i] # positions[j]}

\* exit_position: let mut result = ExitResult { status: Pending, .. }
pending_result(position) == ExitResult(position, "Pending", <<>>, <<>>, <<>>)

\* exit_all's first block that sweeps whatever in_progress is
exit_all_check_unguarded(in_progress) == FALSE

\* exit_all's first block: TRUE when the call returns the stored results
exit_all_check(in_progress) == in_progress

\* A fee-collection failure that fails the exit
after_collect_fees_fatal(exit_result, outcome) ==
    IF outcome = "Ok"
    THEN [exit_result EXCEPT !.fees_collected = Some(<<0, 0>>)]
    ELSE [exit_result EXCEPT !.status = "Failed", !.error = Some("collect_fees")]

\* exit_position, step 1: match self.collect_fees(position).await
after_collect_fees(exit_result, outcome) ==
    IF outcome = "Ok"
    THEN [exit_result EXCEPT !.fees_collected = Some(<<0, 0>>)]
    ELSE exit_result

\* exit_position, step 2: match self.decrease_all_liquidity(position).await
after_decrease(exit_result, outcome) ==
    IF outcome = "Ok"
    THEN [exit_result EXCEPT !.liquidity_removed = Some(0)]
    ELSE [exit_result EXCEPT !.status = "Failed", !.error = Some("decrease_all_liquidity")]

\* exit_position, step 3: match self.close_position(position).await
after_close(exit_result, outcome) ==
    IF outcome = "Ok"
    THEN [exit_result EXCEPT !.status = "Completed"]
    ELSE [exit_result EXCEPT !.status = "Failed", !.error = Some("close_position")]

\* A loop that stops at the first Failed result
remaining_after_stops_on_failure(positions, exit_result) ==
    IF exit_result.status = "Failed" THEN <<>> ELSE Tail(positions)

\* exit_all: for position in positions (what is left after this position)
remaining_after(positions, exit_result) == Tail(positions)

\* Locals of one exit_all call: where it is, the positions copied from the
\* monitor and those still to exit, the result of the exit_position in
\* progress with the steps it has made (history), the results pushed so far,
\* and the last exit_position that returned (history)
IdleCall == [pc |-> "idle", snapshot |-> <<>>, positions |-> <<>>, result |-> <<>>, steps |-> <<>>, results |-> <<>>, last_exit |-> <<>>]

\* History: the exit_all call that returned last, whether it ran a sweep, and
\* the results it returned
ExitReturn(caller, swept, results) == [caller |-> caller, swept |-> swept, ret |-> results]

ExitStep(step, outcome) == [step |-> step, outcome |-> outcome]

\* The pc values of a call that is running a sweep
SweepPcs == {"positions", "collect_fees", "decrease", "close", "store", "clear"}

\* EmergencyExitManager::new, with the monitor it reads
NewExitManager(cfg, monitored) ==
    [config |-> cfg,
     results |-> <<>>,
     in_progress |-> FALSE,
     monitored |-> monitored,
     calls |-> [caller \in Callers |-> IdleCall],
     last_return |-> <<>>,
     begun |-> 0,
     changes |-> 0]

\* exit_all: the head of the for loop, then exit_position up to its first await
next_position(cfg, call, positions) ==
    IF positions = <<>>
    THEN [call EXCEPT !.positions = <<>>, !.result = <<>>, !.steps = <<>>, !.pc = "store"]
    ELSE [call EXCEPT
             !.positions = positions,
             !.result = Some([pending_result(Head(positions)) EXCEPT
                                 !.status = IF cfg.collect_fees THEN "CollectingFees"
                                            ELSE "DecreasingLiquidity"]),
             !.steps = <<>>,
             !.pc = IF cfg.collect_fees THEN "collect_fees" ELSE "decrease"]

\* exit_position returns result: results.push(result), then the next position
push_result(cfg, call, exit_result, steps) ==
    next_position(cfg,
                  [call EXCEPT !.results = Append(@, exit_result),
                               !.last_exit = Some([result |-> exit_result, steps |-> steps])],
                  remaining_after(call.positions, exit_result))

ExitFrame == UNCHANGED <<breakerVars, clockVars, tasks, simVars, rebalanceVars, executorVars, reconciler, scheduler, breaker_calls>>

\* exit_all, first block, under the write lock on in_progress
ExitAllBegin(caller) ==
    /\ exit_mgr.calls[caller].pc = "idle"
    /\ exit_mgr.begun < MaxExitCalls
    /\ IF exit_all_check(exit_mgr.in_progress)
       THEN exit_mgr' = [exit_mgr EXCEPT
                !.last_return = Some(ExitReturn(caller, FALSE, exit_mgr.results)),
                !.begun = @ + 1]
       ELSE exit_mgr' = [exit_mgr EXCEPT
                !.in_progress = TRUE,
                !.calls[caller] = [IdleCall EXCEPT !.pc = "positions"],
                !.begun = @ + 1]
    /\ ExitFrame

\* exit_all: let positions = self.monitor.get_positions().await
ExitAllGetPositions(caller) ==
    /\ exit_mgr.calls[caller].pc = "positions"
    /\ exit_mgr' = [exit_mgr EXCEPT
           !.calls[caller] = next_position(exit_mgr.config,
                                           [@ EXCEPT !.snapshot = exit_mgr.monitored],
                                           exit_mgr.monitored)]
    /\ ExitFrame

\* exit_position, step 1: collect_fees returns
ExitCollectFees(caller) ==
    /\ exit_mgr.calls[caller].pc = "collect_fees"
    /\ \E outcome \in ExitOutcomes :
          exit_mgr' = [exit_mgr EXCEPT
              !.calls[caller] =
                  [@ EXCEPT !.result = Some([after_collect_fees(@[1], outcome)
                                                EXCEPT !.status = "DecreasingLiquidity"]),
                            !.steps = Append(@, ExitStep("collect_fees", outcome)),
                            !.pc = "decrease"]]
    /\ ExitFrame

\* exit_position, step 2: decrease_all_liquidity returns
ExitDecrease(caller) ==
    /\ exit_mgr.calls[caller].pc = "decrease"
    /\ \E outcome \in ExitOutcomes :
          LET call == exit_mgr.calls[caller]
              exit_result == after_decrease(call.result[1], outcome)
              steps == Append(call.steps, ExitStep("decrease_all_liquidity", outcome))
          IN  exit_mgr' = [exit_mgr EXCEPT
                  !.calls[caller] =
                      IF outcome = "Ok"
                      THEN [call EXCEPT !.result = Some([exit_result EXCEPT !.status = "ClosingPosition"]),
                                        !.steps = steps,
                                        !.pc = "close"]
                      ELSE push_result(exit_mgr.config, call, exit_result, steps)]
    /\ ExitFrame

\* exit_position, step 3: close_position returns
ExitClose(caller) ==
    /\ exit_mgr.calls[caller].pc = "close"
    /\ \E outcome \in ExitOutcomes :
          LET call == exit_mgr.calls[caller]
          IN  exit_mgr' = [exit_mgr EXCEPT
                  !.calls[caller] =
                      push_result(exit_mgr.config, call, after_close(call.result[1], outcome),
                                  Append(call.steps, ExitStep("close_position", outcome)))]
    /\ ExitFrame

\* exit_all: *self.results.write().await = results.clone()
ExitAllStore(caller) ==
    /\ exit_mgr.calls[caller].pc = "store"
    /\ exit_mgr' = [exit_mgr EXCEPT !.results = exit_mgr.calls[caller].results,
                                    !.calls[caller].last_exit = <<>>,
                                    !.calls[caller].pc = "clear"]
    /\ ExitFrame

\* exit_all: *self.in_progress.write().await = false; results
ExitAllReturn(caller) ==
    /\ exit_mgr.calls[caller].pc = "clear"
    /\ exit_mgr' = [exit_mgr EXCEPT
           !.in_progress = FALSE,
           !.last_return = Some(ExitReturn(caller, TRUE, exit_mgr.calls[caller].results)),
           !.calls[caller] = IdleCall]
    /\ ExitFrame

\* The monitor starts or stops monitoring positions
MonitorChange ==
    /\ exit_mgr.changes < MaxMonitorChanges
    /\ \E monitored \in PositionLists \ {exit_mgr.monitored} :
          exit_mgr' = [exit_mgr EXCEPT !.monitored = monitored, !.changes = @ + 1]
    /\ ExitFrame

-----------------------------------------------------------------------------
(* Scheduler: tasks, the loop of start, and stop *)

\* Tasks a scheduler holds
MaxTasks == 2
\* add_task, remove_task, enable_task and disable_task calls before start
MaxSetupCalls == 3
\* Ticks of the check interval in a run
MaxTicks == 3
\* Longest Interval and Once durations, in seconds
MaxDurationSecs == 2
\* Events taken out of the channel in a run
MaxReceives == 1

\* calculate_next_run_static, Daily: 24 * 60 * 60
SecsPerDay == 86400
\* calculate_next_run_static, Cron: 60 * 60
SecsPerHour == 3600
\* start: interval(Duration::from_secs(1))
CheckIntervalSecs == 1
\* Scheduler::new: mpsc::channel(100)
ChannelCapacity == 100

\* Schedule: Interval(d), Daily(times), Once(delay), Cron(expr); secs is the
\* duration of Interval and Once
Schedule(kind, secs) == [kind |-> kind, secs |-> secs]

Schedules ==
    {Schedule(kind, secs) : kind \in {"Interval", "Once"}, secs \in 1..MaxDurationSecs}
        \cup {Schedule("Daily", 0), Schedule("Cron", 0)}

\* ScheduledTask::new: enabled, never run, no next run
NewScheduledTask(name, schedule) == [name |-> name, schedule |-> schedule, enabled |-> TRUE, last_run |-> NoInstant, next_run |-> NoInstant]

\* ScheduledTask::disabled
disabled(task) == [task EXCEPT !.enabled = FALSE]

TaskEvent(task_name, scheduled_at, triggered_at) == [task_name |-> task_name, scheduled_at |-> scheduled_at, triggered_at |-> triggered_at]

\* A next run that takes Daily for hourly
calculate_next_run_daily_as_hourly(schedule, from) ==
    IF schedule.kind \in {"Interval", "Once"} THEN from + schedule.secs ELSE from + SecsPerHour

calculate_next_run_static(schedule, from) ==
    IF schedule.kind = "Interval" THEN from + schedule.secs
    ELSE IF schedule.kind = "Once" THEN from + schedule.secs
    ELSE IF schedule.kind = "Daily" THEN from + SecsPerDay
    ELSE from + SecsPerHour

\* start: the condition under which the loop triggers a task
should_run(task, instant) ==
    task.enabled /\ task.next_run # NoInstant /\ instant >= task.next_run[1]

\* start: the for loop over the tasks, the tasks after it
tasks_after_tick(task_list, instant) ==
    [i \in 1..Len(task_list) |->
        IF should_run(task_list[i], instant)
        THEN [task_list[i] EXCEPT
                 !.last_run = Some(instant),
                 !.next_run = Some(calculate_next_run_static(task_list[i].schedule, instant))]
        ELSE task_list[i]]

\* start: the for loop over the tasks, the events it collects
RECURSIVE events_of_tick(_, _)
events_of_tick(task_list, instant) ==
    IF task_list = <<>> THEN <<>>
    ELSE LET task == Head(task_list)
             rest == events_of_tick(Tail(task_list), instant)
         IN  IF should_run(task, instant)
             THEN <<TaskEvent(task.name, task.next_run[1], instant)>> \o rest
             ELSE rest

\* start: initialize next run times
initialize_next_runs(task_list, instant) ==
    [i \in 1..Len(task_list) |->
        [task_list[i] EXCEPT !.next_run = Some(calculate_next_run_static(task_list[i].schedule, instant))]]

\* remove_task: retain(|t| t.name != name)
RECURSIVE remove_task(_, _)
remove_task(task_list, name) ==
    IF task_list = <<>> THEN <<>>
    ELSE IF Head(task_list).name = name THEN remove_task(Tail(task_list), name)
    ELSE <<Head(task_list)>> \o remove_task(Tail(task_list), name)

\* enable_task and disable_task: the first task of that name
set_enabled(task_list, name, enabled) ==
    LET found == {i \in 1..Len(task_list) : task_list[i].name = name}
    IN  IF found = {} THEN task_list
        ELSE LET first == CHOOSE i \in found : \A j \in found : i <= j
             IN  [task_list EXCEPT ![first].enabled = enabled]

\* The time that has passed when check_interval.tick() completes: none (the
\* first tick), the period, or more when the loop was held up
TickDelays == {0, CheckIntervalSecs, SecsPerHour, SecsPerDay}

\* History: one call of event_tx.send and whether the channel took the event
SendRecord(event, delivered) == [event |-> event, delivered |-> delivered]

\* Scheduler::new, with the clock the loop reads
NewScheduler ==
    [tasks |-> <<>>,
     running |-> FALSE,
     receiver_dropped |-> FALSE,
     instant |-> 0,
     pc |-> "new",
     events_to_send |-> <<>>,
     queued |-> 0,
     receives |-> 0,
     sent |-> <<>>,
     started_at |-> NoInstant,
     stop_called |-> FALSE,
     names |-> 0,
     setup_calls |-> 0,
     ticks |-> 0]

SchedulerFrame == UNCHANGED <<breakerVars, clockVars, tasks, simVars, rebalanceVars, executorVars, reconciler, exit_mgr, breaker_calls>>

\* add_task(ScheduledTask::new(name, schedule)), or with .disabled()
AddTask ==
    /\ scheduler.pc = "new"
    /\ scheduler.setup_calls < MaxSetupCalls
    /\ Len(scheduler.tasks) < MaxTasks
    /\ \E schedule \in Schedules, enabled \in BOOLEAN :
          LET task == NewScheduledTask(scheduler.names + 1, schedule)
          IN  scheduler' = [scheduler EXCEPT
                  !.tasks = Append(@, IF enabled THEN task ELSE disabled(task)),
                  !.names = @ + 1,
                  !.setup_calls = @ + 1]
    /\ SchedulerFrame

RemoveTask ==
    /\ scheduler.pc = "new"
    /\ scheduler.setup_calls < MaxSetupCalls
    /\ \E name \in 1..MaxTasks :
          scheduler' = [scheduler EXCEPT !.tasks = remove_task(@, name), !.setup_calls = @ + 1]
    /\ SchedulerFrame

EnableTask ==
    /\ scheduler.pc = "new"
    /\ scheduler.setup_calls < MaxSetupCalls
    /\ \E name \in 1..MaxTasks :
          scheduler' = [scheduler EXCEPT !.tasks = set_enabled(@, name, TRUE), !.setup_calls = @ + 1]
    /\ SchedulerFrame

DisableTask ==
    /\ scheduler.pc = "new"
    /\ scheduler.setup_calls < MaxSetupCalls
    /\ \E name \in 1..MaxTasks :
          scheduler' = [scheduler EXCEPT !.tasks = set_enabled(@, name, FALSE), !.setup_calls = @ + 1]
    /\ SchedulerFrame

\* take_receiver, and the receiver is dropped
DropReceiver ==
    /\ ~scheduler.receiver_dropped
    /\ scheduler' = [scheduler EXCEPT !.receiver_dropped = TRUE]
    /\ SchedulerFrame

\* start up to the loop: running = true, initialize next run times
SchedulerStart ==
    /\ scheduler.pc = "new"
    /\ scheduler' = [scheduler EXCEPT
           !.running = TRUE,
           !.tasks = initialize_next_runs(@, scheduler.instant),
           !.started_at = Some(scheduler.instant),
           !.pc = "head"]
    /\ SchedulerFrame

\* while self.running.load(..)
SchedulerLoopHead ==
    /\ scheduler.pc = "head"
    /\ scheduler' = [scheduler EXCEPT !.pc = IF scheduler.running THEN "waiting" ELSE "stopped"]
    /\ SchedulerFrame

\* check_interval.tick() completes; the for loop over the tasks.  The
\* bound on the ticks holds back a running scheduler only: the tick awaited
\* when stop() was called always completes.
SchedulerTick ==
    /\ scheduler.pc = "waiting"
    /\ scheduler.ticks < MaxTicks \/ ~scheduler.running
    /\ \E delay \in TickDelays :
          LET instant == scheduler.instant + delay
              events == events_of_tick(scheduler.tasks, instant)
          IN  scheduler' = [scheduler EXCEPT
                  !.instant = instant,
                  !.tasks = tasks_after_tick(@, instant),
                  !.events_to_send = events,
                  !.pc = IF events = <<>> THEN "head" ELSE "sending",
                  !.ticks = @ + 1]
    /\ SchedulerFrame

\* The channel has room for one more event
channel_has_room(s) == s.queued < ChannelCapacity

\* self.event_tx.send(event).await, for the next collected event: Err at
\* once when the receiver has been dropped, else the event is queued as
\* soon as the channel has room, and the call waits until then
SchedulerSend ==
    /\ scheduler.pc = "sending"
    /\ scheduler.receiver_dropped \/ channel_has_room(scheduler)
    /\ scheduler' = [scheduler EXCEPT
           !.sent = Append(@, SendRecord(Head(scheduler.events_to_send),
                                         ~scheduler.receiver_dropped)),
           !.queued = IF scheduler.receiver_dropped THEN @ ELSE @ + 1,
           !.events_to_send = Tail(@),
           !.pc = IF Tail(scheduler.events_to_send) = <<>> THEN "head" ELSE "sending"]
    /\ SchedulerFrame

\* The holder of the receiver takes one event out of the channel
ReceiveEvent ==
    /\ ~scheduler.receiver_dropped
    /\ scheduler.queued > 0
    /\ scheduler.receives < MaxReceives
    /\ scheduler' = [scheduler EXCEPT !.queued = @ - 1, !.receives = @ + 1]
    /\ SchedulerFrame

\* stop: running = false
SchedulerStop ==
    /\ ~scheduler.stop_called
    /\ scheduler' = [scheduler EXCEPT !.running = FALSE, !.stop_called = TRUE]
    /\ SchedulerFrame

-----------------------------------------------------------------------------
\* Reconciler::new, EmergencyExitManager::new and Scheduler::new
InitSyncIdle ==
    /\ reconciler = NewReconciler(ReconcilerConfig(ModelMaxAgeSecs, ModelMaxFailures))
    /\ exit_mgr = NewExitManager(EmergencyExitConfig(TRUE), <<>>)
    /\ scheduler = NewScheduler
    /\ breaker_calls = NoBreakerCalls

-----------------------------------------------------------------------------
\* No simulation, reconciler, exit or scheduler activity in the specifications of the executor
InitSimIdle ==
    /\ InitSyncIdle
    /\ tasks = NoTasks
    /\ eval_call = NoEvalCall
    /\ sim_run = PeriodicTestRun
    /\ sim = NoLocals
    /\ sim_pc = "idle"
    /\ sim_summary = NoSummary
    /\ tracker = NewPositionTracker(InitialCapitalCents, 1000, PriceRange(900, 1100),
                                    DefaultRebalanceCostCents)

-----------------------------------------------------------------------------
(* The circuit breaker on its own, under every call sequence *)

\* RebalanceExecutor::new and LifecycleTracker::new
InitRebalance(rebalance_cfg, dry) ==
    /\ rebalance_config = rebalance_cfg
    /\ dry_run = dry
    /\ lifecycle = NewLifecycle
    /\ unique_count = 0
    /\ result = InitialResult(0)
    /\ phases = <<>>
    /\ last_call = [n |-> 0, params |-> RebalanceParams(0, 0, 0)]

\* StrategyExecutor::new
InitExecutor(auto_execute) ==
    /\ executor_config = [auto_execute |-> auto_execute]
    /\ running = FALSE
    /\ pc = "stopped"
    /\ idx = 1
    /\ tick_results = <<>>

InitBreaker ==
    /\ config \in BreakerConfigs
    /\ breaker = NewBreaker
    /\ now = 0
    /\ utc_now = 0
    /\ clock_steps = 0
    /\ last_op = None
    /\ ret = TRUE
    /\ consecutive_failures = 0
    /\ episode_successes = 0
    /\ InitRebalance(DefaultRebalanceConfig, FALSE)
    /\ InitExecutor(FALSE)
    /\ InitSimIdle

NextBreaker ==
    \/ CallIsAllowed
    \/ CallRecordSuccess
    \/ CallRecordFailure
    \/ CallCheckLoss
    \/ CallCheckPriorityFee
    \/ CallManualTrip
    \/ CallResetManualTrip
    \/ CallReset
    \/ AdvanceClock

SpecBreaker == InitBreaker /\ [][NextBreaker]_vars

-----------------------------------------------------------------------------
(* The circuit breaker shared by several tasks, step by step *)

\* The breaker after max_failures failures at time 0 and an is_allowed
\* call once the timeout has passed
HalfOpenBreaker == [NewBreaker EXCEPT !.state = "HalfOpen", !.opened_at = Some(0)]

\* The tasks start on a new breaker, or on one that has tripped and is
\* recovering.
InitBreakerTasks ==
    /\ config \in {CircuitBreakerConfig(1, 2, 1),
                   CircuitBreakerConfig(2, 2, DefaultSuccessThreshold)}
    /\ \/ breaker = NewBreaker /\ now = 0
       \/ breaker = HalfOpenBreaker /\ now = config.recovery_timeout_secs
    /\ utc_now = 0
    /\ clock_steps = 0
    /\ last_op = None
    /\ ret = TRUE
    /\ consecutive_failures = 0
    /\ episode_successes = 0
    /\ InitRebalance(DefaultRebalanceConfig, FALSE)
    /\ InitExecutor(FALSE)
    /\ InitSimIdle

\* One second passes.
AdvanceClockOneSecond == AdvanceClock /\ now' = now + 1

NextBreakerTasks ==
    \/ \E task \in BreakerTasks : BeginBreakerCall(task)
    \/ \E task \in BreakerTasks : IsAllowedStep(task)
    \/ \E task \in BreakerTasks : RecordSuccessStep(task)
    \/ \E task \in BreakerTasks : RecordFailureStep(task)
    \/ \E task \in BreakerTasks : TripStep(task)
    \/ \E task \in BreakerTasks : ManualFlagStep(task)
    \/ \E task \in BreakerTasks : ResetStep(task)
    \/ AdvanceClockOneSecond

SpecBreakerTasks == InitBreakerTasks /\ [][NextBreakerTasks]_vars

-----------------------------------------------------------------------------
(* The rebalance executor on its own: direct calls of execute *)

InitRebalanceOnly ==
    /\ config = DefaultConfig
    /\ breaker = NewBreaker
    /\ now = 0
    /\ utc_now = 0
    /\ clock_steps = 0
    /\ last_op = None
    /\ ret = TRUE
    /\ consecutive_failures = 0
    /\ episode_successes = 0
    /\ \E collect_first \in BOOLEAN : InitRebalance(RebalanceConfig(collect_first), FALSE)
    /\ InitExecutor(FALSE)
    /\ InitSimIdle

NextRebalance ==
    \/ CallExecute
    \/ CallSetDryRun
    \/ CallRecordPositionOpened

SpecRebalance == InitRebalanceOnly /\ [][NextRebalance]_vars

-----------------------------------------------------------------------------
(* The strategy executor: its loop, with the breaker, the rebalance executor
   and the tracker it owns, while other tasks call the breaker and time
   passes *)

Init ==
    /\ config = DefaultConfig
    /\ breaker = NewBreaker
    /\ now = 0
    /\ utc_now = 0
    /\ clock_steps = 0
    /\ last_op = None
    /\ ret = TRUE
    /\ consecutive_failures = 0
    /\ episode_successes = 0
    /\ \E dry \in BOOLEAN : InitRebalance(DefaultRebalanceConfig, dry)
    /\ \E auto_execute \in BOOLEAN : InitExecutor(auto_execute)
    /\ InitSimIdle

Next ==
    \/ Start
    \/ Stop
    \/ LoopHead
    \/ TickFire
    \/ CheckBreaker
    \/ EvaluatePosition
    \/ RecordOutcome
    \/ CallManualTrip
    \/ CallResetManualTrip
    \/ AdvanceClock

Spec == Init /\ [][Next]_vars

-----------------------------------------------------------------------------
(* The simulator and the tracker over every run of the model *)

InitSim ==
    /\ config = DefaultConfig
    /\ breaker = NewBreaker
    /\ now = 0
    /\ utc_now = 0
    /\ clock_steps = 0
    /\ last_op = None
    /\ ret = TRUE
    /\ consecutive_failures = 0
    /\ episode_successes = 0
    /\ InitRebalance(DefaultRebalanceConfig, FALSE)
    /\ InitExecutor(FALSE)
    /\ eval_call = NoEvalCall
    /\ tasks = NoTasks
    /\ InitSyncIdle
    /\ sim_run \in SimRuns
    /\ sim = NoLocals
    /\ sim_pc = "start"
    /\ sim_summary = NoSummary
    /\ tracker = NewPositionTracker(sim_run.config.initial_capital,
                     IF Len(sim_run.prices) > 0 THEN sim_run.prices[1] ELSE 1000,
                     sim_run.config.initial_range, sim_run.config.rebalance_cost)

NextSim ==
    \/ SimStart
    \/ SimStep
    \/ SimFinish
    \/ TrackerRecordStep

SpecSim == InitSim /\ [][NextSim]_vars

-----------------------------------------------------------------------------
(* The threshold strategy on its own: direct calls of evaluate *)

InitEvaluate ==
    /\ config = DefaultConfig
    /\ breaker = NewBreaker
    /\ now = 0
    /\ utc_now = 0
    /\ clock_steps = 0
    /\ last_op = None
    /\ ret = TRUE
    /\ consecutive_failures = 0
    /\ episode_successes = 0
    /\ InitRebalance(DefaultRebalanceConfig, FALSE)
    /\ InitExecutor(FALSE)
    /\ InitSimIdle

NextEvaluate == CallThresholdEvaluate

SpecEvaluate == InitEvaluate /\ [][NextEvaluate]_vars

-----------------------------------------------------------------------------
(* The lifecycle tracker on its own, called by concurrent tasks *)

InitLifecycle == InitEvaluate

NextLifecycle ==
    \/ \E task \in Tasks : RecordBegin(task)
    \/ \E task \in Tasks : RecordAddEvent(task)
    \/ \E task \in Tasks : RecordFinish(task)
    \/ TickUtc

SpecLifecycle == InitLifecycle /\ [][NextLifecycle]_vars

-----------------------------------------------------------------------------
(* The reconciler: one reconcile cycle at a time, with track_account,
   untrack_account and process_update calls between any two of its steps *)

\* The other components, idle
InitOthersIdle ==
    /\ config = DefaultConfig /\ breaker = NewBreaker /\ now = 0 /\ utc_now = 0
    /\ clock_steps = 0 /\ last_op = None /\ ret = TRUE
    /\ consecutive_failures = 0 /\ episode_successes = 0
    /\ InitRebalance(DefaultRebalanceConfig, FALSE)
    /\ InitExecutor(FALSE)
    /\ tasks = NoTasks
    /\ eval_call = NoEvalCall
    /\ sim_run = PeriodicTestRun
    /\ sim = NoLocals
    /\ sim_pc = "idle"
    /\ sim_summary = NoSummary
    /\ tracker = NewPositionTracker(InitialCapitalCents, 1000, PriceRange(900, 1100),
                                    DefaultRebalanceCostCents)

\* Reconciler::new
InitReconciler == InitEvaluate

NextReconciler ==
    \/ TrackAccount
    \/ UntrackAccount
    \/ ProcessUpdate
    \/ AdvanceSlot
    \/ AdvanceInstant
    \/ ReconcileBegin
    \/ ReconcileCheck
    \/ ReconcileMark
    \/ ReconcileFetchOk
    \/ ReconcileFetchErr
    \/ ReconcileFinish

SpecReconciler == InitReconciler /\ [][NextReconciler]_vars

-----------------------------------------------------------------------------
(* The emergency exit manager: exit_all calls of several tasks interleaved *)

\* EmergencyExitManager::new, for either value of collect_fees and any
\* monitored positions
InitExit ==
    /\ InitOthersIdle
    /\ reconciler = NewReconciler(ReconcilerConfig(ModelMaxAgeSecs, ModelMaxFailures))
    /\ scheduler = NewScheduler
    /\ breaker_calls = NoBreakerCalls
    /\ \E collect_fees \in BOOLEAN, monitored \in PositionLists :
          exit_mgr = NewExitManager(EmergencyExitConfig(collect_fees), monitored)

NextExit ==
    \/ \E caller \in Callers : ExitAllBegin(caller)
    \/ \E caller \in Callers : ExitAllGetPositions(caller)
    \/ \E caller \in Callers : ExitCollectFees(caller)
    \/ \E caller \in Callers : ExitDecrease(caller)
    \/ \E caller \in Callers : ExitClose(caller)
    \/ \E caller \in Callers : ExitAllStore(caller)
    \/ \E caller \in Callers : ExitAllReturn(caller)
    \/ MonitorChange

SpecExit == InitExit /\ [][NextExit]_vars

-----------------------------------------------------------------------------
(* The scheduler: tasks are set up, start runs its loop, stop may come at
   any point *)

\* Scheduler::new
InitScheduler == InitOthersIdle /\ InitSyncIdle

NextScheduler ==
    \/ AddTask
    \/ RemoveTask
    \/ EnableTask
    \/ DisableTask
    \/ DropReceiver
    \/ SchedulerStart
    \/ SchedulerLoopHead
    \/ SchedulerTick
    \/ SchedulerSend
    \/ SchedulerStop

SpecScheduler == InitScheduler /\ [][NextScheduler]_vars

-----------------------------------------------------------------------------
(* The scheduler's loop under fair scheduling: the task that runs start is
   scheduled and the timer fires, so every step of the loop that can be
   taken is eventually taken; stop(), the dropping of the receiver and the
   receiving of events are up to the other tasks.  The scheduler may have
   run before: start is called with the events of the earlier run still in
   the channel. *)

QueuedAtStart == {0, ChannelCapacity - 1}

InitSchedulerLoop ==
    /\ InitOthersIdle
    /\ reconciler = NewReconciler(ReconcilerConfig(ModelMaxAgeSecs, ModelMaxFailures))
    /\ exit_mgr = NewExitManager(EmergencyExitConfig(TRUE), <<>>)
    /\ breaker_calls = NoBreakerCalls
    /\ \E queued \in QueuedAtStart : scheduler = [NewScheduler EXCEPT !.queued = queued]

NextSchedulerLoop ==
    \/ AddTask
    \/ DropReceiver
    \/ ReceiveEvent
    \/ SchedulerStart
    \/ SchedulerLoopHead
    \/ SchedulerTick
    \/ SchedulerSend
    \/ SchedulerStop

SpecSchedulerLoop ==
    /\ InitSchedulerLoop
    /\ [][NextSchedulerLoop]_vars
    /\ WF_vars(SchedulerLoopHead)
    /\ WF_vars(SchedulerTick)
    /\ WF_vars(SchedulerSend)

-----------------------------------------------------------------------------
(* Properties of the circuit breaker, checked under SpecBreaker *)

TimeoutElapsed(b, t) ==
    b.opened_at # NoInstant /\ Elapsed(b.opened_at, t) >= config.recovery_timeout_secs

\* C2: starting from Closed, fewer than max_failures consecutive
\* record_failure calls leave the breaker Closed and allowed, a
\* record_success resets the consecutive count; the call that makes
\* max_failures consecutive failures opens it (opened_at = now) with the
\* failure counter reset; and every is_allowed call made while Open with
\* less than recovery_timeout elapsed returns false and leaves it Open.
C2_TripsAfterMaxFailures ==
    /\ [](breaker.state = "Closed" =>
            /\ consecutive_failures < config.max_failures
            /\ breaker.failure_count = consecutive_failures
            /\ ~breaker.manually_tripped)
    /\ [][/\ (CallIsAllowed /\ breaker.state = "Closed" =>
                ret' = TRUE /\ breaker' = breaker)
          /\ (CallRecordFailure /\ breaker.state = "Closed" =>
                IF consecutive_failures + 1 >= config.max_failures
                THEN /\ breaker'.state = "Open"
                     /\ breaker'.failure_count = 0
                     /\ breaker'.opened_at = Some(now)
                ELSE breaker'.state = "Closed")
          /\ (CallRecordSuccess => breaker'.failure_count = 0)
          /\ (CallIsAllowed /\ breaker.state = "Open" /\ ~TimeoutElapsed(breaker, now) =>
                ret' = FALSE /\ breaker' = breaker)]_vars

\* C2's case: max_failures = 2 consecutive failures opened the breaker,
\* time has passed (less than the timeout) and is_allowed returned false.
C2_Witness ==
    /\ config.max_failures = 2
    /\ consecutive_failures = 2
    /\ breaker.state = "Open"
    /\ ~breaker.manually_tripped
    /\ breaker.opened_at # NoInstant
    /\ Elapsed(breaker.opened_at, now) > 0
    /\ Elapsed(breaker.opened_at, now) < config.recovery_timeout_secs
    /\ last_op = "is_allowed"
    /\ ret = FALSE

\* C3: when the breaker is Open, not manually tripped, and at least
\* recovery_timeout has elapsed since opened_at, is_allowed returns true and
\* moves the breaker to HalfOpen (with recovery_timeout 300: false at
\* t+299, true at t+301); no step takes Open to HalfOpen before the timeout.
C3_HalfOpenAfterTimeout ==
    [][/\ (CallIsAllowed /\ breaker.state = "Open" /\ ~breaker.manually_tripped
             /\ TimeoutElapsed(breaker, now) =>
                ret' = TRUE /\ breaker'.state = "HalfOpen")
       /\ (CallIsAllowed /\ breaker.state = "Open" /\ breaker.opened_at # NoInstant
             /\ Elapsed(breaker.opened_at, now) = config.recovery_timeout_secs - 1 =>
                ret' = FALSE /\ breaker'.state = "Open")
       /\ (breaker.state = "Open" /\ breaker'.state = "HalfOpen" =>
                TimeoutElapsed(breaker, now) /\ ~breaker.manually_tripped)]_vars

\* Scenario S5 at t+301: max_failures 2, recovery_timeout 300 s, two
\* failures opened the breaker, and is_allowed 301 s later returned true
\* with the state HalfOpen.
C3_Witness ==
    /\ config.max_failures = 2
    /\ config.recovery_timeout_secs = DefaultRecoveryTimeoutSecs
    /\ consecutive_failures = 2
    /\ breaker.state = "HalfOpen"
    /\ breaker.opened_at # NoInstant
    /\ Elapsed(breaker.opened_at, now) = DefaultRecoveryTimeoutSecs + 1
    /\ last_op = "is_allowed"
    /\ ret = TRUE

\* C4: in HalfOpen a single record_failure moves the breaker to Open with a
\* fresh opened_at (the time of that failure), and is_allowed is false
\* until recovery_timeout has elapsed since that opened_at.
C4_HalfOpenFailureReopens ==
    [][/\ (CallRecordFailure /\ breaker.state = "HalfOpen" =>
                /\ breaker'.state = "Open"
                /\ breaker'.opened_at = Some(now))
       /\ (CallIsAllowed /\ breaker.state = "Open" /\ breaker.opened_at # NoInstant
             /\ Elapsed(breaker.opened_at, now) < config.recovery_timeout_secs =>
                ret' = FALSE /\ breaker'.state = "Open")]_vars

\* C4's case: with max_failures >= 2 a single failure (the first since the
\* last success) has tripped the breaker, which it only does from HalfOpen,
\* at a time later than the trip that began the episode.
C4_Witness ==
    /\ config.max_failures >= 2
    /\ last_op = "record_failure"
    /\ consecutive_failures = 1
    /\ breaker.state = "Open"
    /\ breaker.failure_count = 0
    /\ breaker.opened_at = Some(now)
    /\ now >= config.recovery_timeout_secs

\* C5: a record_success call closes a HalfOpen breaker exactly when it is
\* the success_threshold-th success of the current HalfOpen episode
\* (successes of an earlier episode do not count), and record_success in
\* Closed or Open never changes the state.
C5_ClosesAfterThresholdInEpisode ==
    [][CallRecordSuccess =>
         IF breaker.state = "HalfOpen"
         THEN (breaker'.state = "Closed") <=>
                  (episode_successes' = config.success_threshold)
         ELSE breaker'.state = breaker.state]_vars

\* C6: while the manual flag is set is_allowed returns false, whatever the
\* state and the time elapsed; reset_manual_trip changes only the flag; the
\* flag is only ever set on an Open breaker, so right after
\* reset_manual_trip the breaker is still Open and is_allowed stays false
\* until the recovery timeout.
C6_ManualTripSticky ==
    /\ [](breaker.manually_tripped => breaker.state = "Open")
    /\ [][/\ (CallManualTrip =>
                breaker'.manually_tripped /\ breaker'.state = "Open")
          /\ (CallIsAllowed /\ breaker.manually_tripped =>
                ret' = FALSE /\ breaker' = breaker)
          /\ (CallResetManualTrip =>
                breaker' = [breaker EXCEPT !.manually_tripped = FALSE])
          /\ (CallIsAllowed /\ last_op = "reset_manual_trip"
                /\ breaker.state = "Open" /\ ~TimeoutElapsed(breaker, now) =>
                ret' = FALSE /\ breaker'.state = "Open")]_vars

\* C6's case: the flag is set, the recovery timeout has elapsed since the
\* manual trip, and is_allowed has still returned false.
C6_Witness ==
    /\ breaker.manually_tripped
    /\ TimeoutElapsed(breaker, now)
    /\ last_op = "is_allowed"
    /\ ret = FALSE

-----------------------------------------------------------------------------
(* Properties of RebalanceExecutor::execute, checked under SpecRebalance *)

\* A step in which a direct call of execute returns.
ExecuteReturns == last_call'.n # last_call.n

\* The order in which execute attempts its phases.
PhaseOrder ==
    IF rebalance_config.collect_fees_first
    THEN <<"collect_fees", "decrease_liquidity", "close_position",
           "open_position", "increase_liquidity">>
    ELSE <<"decrease_liquidity", "close_position", "open_position",
           "increase_liquidity">>

\* The number of phases of a log that succeeded.
PhasesOk(log) == Len(SelectSeq(log, LAMBDA a : a.ok))

\* C8: in a profitable call of execute outside dry-run mode the phases
\* attempted are a prefix of collect fees (if collect_fees_first), decrease,
\* close, open, increase, in that order; a failed fee collection is followed
\* by the decrease; a failed later phase is the last one attempted and the
\* call returns success = false with an error, keeps what the completed
\* phases did (their tx cost, the liquidity removed) and records no
\* Rebalanced event; with no such failure all phases run and the call
\* succeeds.
C8_PhasesInOrderFirstFailureEnds ==
    [][LET params == last_call'.params
           liquidity == params.current_liquidity
           fatal == {i \in 1..Len(phases') :
                       ~phases'[i].ok /\ phases'[i].phase # "collect_fees"}
       IN (/\ ExecuteReturns
           /\ ~dry_run
           /\ estimate_benefit(params) >
                 rebalance_config.min_profit_multiplier * estimate_tx_cost)
             => /\ Len(phases') <= Len(PhaseOrder)
                /\ \A i \in 1..Len(phases') : phases'[i].phase = PhaseOrder[i]
                /\ \A i \in 1..Len(phases') :
                      phases'[i].phase = "collect_fees" => Len(phases') > i
                /\ \A i \in fatal :
                      /\ i = Len(phases')
                      /\ ~result'.success
                      /\ result'.error # None
                      /\ EventsOfType(lifecycle', "Rebalanced")
                            = EventsOfType(lifecycle, "Rebalanced")
                /\ fatal = {} =>
                      /\ Len(phases') = Len(PhaseOrder)
                      /\ result'.success
                      /\ result'.error = None
                      /\ EventsOfType(lifecycle', "Rebalanced")
                            = EventsOfType(lifecycle, "Rebalanced") + 1
                /\ result'.tx_cost_lamports = PhasesOk(phases') * PhaseTxCostLamports
                /\ result'.liquidity_removed =
                      IF \E i \in 1..Len(phases') :
                            phases'[i] = [phase |-> "decrease_liquidity", ok |-> TRUE]
                      THEN liquidity ELSE 0]_vars

\* C8's case: the fee collection failed, the decrease and the close went
\* through and the open failed: the call ended there, unsuccessful, with the
\* cost of the two completed phases and an empty tracker.
C8_Witness ==
    /\ phases = <<[phase |-> "collect_fees", ok |-> FALSE],
                  [phase |-> "decrease_liquidity", ok |-> TRUE],
                  [phase |-> "close_position", ok |-> TRUE],
                  [phase |-> "open_position", ok |-> FALSE]>>
    /\ ~result.success
    /\ result.error = "open_position"
    /\ result.liquidity_removed \in LiquidityValues
    /\ result.tx_cost_lamports = 2 * PhaseTxCostLamports
    /\ TotalEvents(lifecycle) = 0

\* C9: execute goes past the profitability check if and only if
\* expected_benefit >= min_profit_multiplier * estimated_tx_cost (equality
\* goes on); otherwise it returns the not-profitable failure with no phase
\* attempted, no tx cost and the tracker untouched.
C9_ProceedsIffBenefitAtLeastRequired ==
    [][LET params == last_call'.params
       IN ExecuteReturns
             => IF estimate_benefit(params) >=
                     rebalance_config.min_profit_multiplier * estimate_tx_cost
                THEN result'.error # "Rebalance not profitable"
                ELSE /\ result'.error = "Rebalance not profitable"
                     /\ ~result'.success
                     /\ phases' = <<>>
                     /\ result'.tx_cost_lamports = 0
                     /\ lifecycle' = lifecycle]_vars

\* C10: in dry-run mode a call of execute that passes the profitability
\* check returns success with liquidity_removed = liquidity_added =
\* current_liquidity, no new position, no fees, tx cost 0 and no error,
\* attempts no phase, hands out no address and leaves the tracker's events
\* and summaries as they were.
C10_DryRunSyntheticSuccess ==
    [][LET params == last_call'.params
           position == params.position
           liquidity == params.current_liquidity
       IN (/\ ExecuteReturns
           /\ dry_run
           /\ estimate_benefit(params) >
                 rebalance_config.min_profit_multiplier * estimate_tx_cost)
             => /\ result'.success
                /\ result'.error = None
                /\ result'.old_position = position
                /\ result'.new_position = <<>>
                /\ result'.fees_collected = <<>>
                /\ result'.liquidity_removed = liquidity
                /\ result'.liquidity_added = liquidity
                /\ result'.tx_cost_lamports = 0
                /\ phases' = <<>>
                /\ lifecycle' = lifecycle
                /\ unique_count' = unique_count]_vars

\* C10's case: a dry-run call succeeded for a position the tracker already
\* holds an opening event and a summary for.
C10_Witness ==
    /\ dry_run
    /\ result.success
    /\ result.old_position \in DOMAIN lifecycle.summaries
    /\ result.liquidity_added \in LiquidityValues
    /\ phases = <<>>
    /\ TotalEvents(lifecycle) = 1
    /\ unique_count = 0

\* C11: a call of execute that fails in a phase leaves in the tracker one
\* record for every phase it completed before (fee collection, decrease,
\* close, open, increase): the tracker gains at least as many events as
\* phases succeeded.
C11_EveryCompletedPhaseRecorded ==
    [][(/\ ExecuteReturns
        /\ ~result'.success
        /\ phases' # <<>>)
          => TotalEvents(lifecycle') - TotalEvents(lifecycle) >= PhasesOk(phases')]_vars

-----------------------------------------------------------------------------
(* Properties of the strategy executor's loop, checked under Spec *)

C7_FailedTickRecordsFailure ==
    [][(RecordOutcome /\ \E i \in 1..Len(tick_results) : ~tick_results[i])
          => last_op' = "record_failure"]_vars

-----------------------------------------------------------------------------
(* Properties of the simulator and of the tracker, checked under SpecSim *)

RECURSIVE SumAmounts(_, _)
\* Sum of the amounts of the events of one type
SumAmounts(events, event_type) ==
    IF events = <<>> THEN 0
    ELSE (IF Head(events).event_type = event_type THEN Head(events).amount ELSE 0)
         + SumAmounts(Tail(events), event_type)

SimReturned == sim_pc = "done" /\ Len(sim_run.prices) > 0

\* C12: the summary of every run over a non-empty path satisfies
\* final_value = C0 - C0 * |final_il_pct| + total_fees - total_rebalance_cost
\* and net_pnl = final_value - C0, total_fees being the sum of the fees
\* accrued in the executed steps and total_rebalance_cost the sum of the
\* costs charged for the rebalances performed.
C12_SummaryConservation ==
    SimReturned =>
        LET C0 == sim_run.config.initial_capital
        IN  /\ sim_summary.final_value =
                   C0 - (C0 * Abs(sim_summary.final_il_pct)) \div 10000
                      + sim_summary.total_fees - sim_summary.total_rebalance_cost
            /\ sim_summary.net_pnl = sim_summary.final_value - C0
            /\ sim_summary.total_fees = SumAmounts(sim.events, "FeeCollection")
            /\ sim_summary.total_rebalance_cost = SumAmounts(sim.events, "Rebalance")

\* A run that rebalanced, earned fees and ended with a loss has returned
C12_Witness ==
    /\ SimReturned
    /\ sim_summary.rebalance_count > 0
    /\ sim_summary.total_fees > 0
    /\ sim_summary.final_il_pct < 0

\* C13: when the strategy returns Close at step k the simulation stops at
\* k: no fee accrues and no rebalance happens at or after k, exactly one
\* PositionClosed event is logged, and the summary's final_il_pct and
\* final_value are those of the closing step (the loss at the price p_k, the
\* fees accumulated up to k), not of later prices of the path.
C13_CloseStopsAndSummarizesAtClosingStep ==
    (SimReturned /\ sim.closed) =>
        LET k == sim.step
            C0 == sim_run.config.initial_capital
            il_k == calculate_il_concentrated(sim_run.prices[1], sim_run.prices[k + 1],
                        sim.current_range.lower_price, sim.current_range.upper_price)
        IN  /\ \A i \in 1..Len(sim.events) :
                   sim.events[i].event_type \in {"FeeCollection", "Rebalance"}
                       => sim.events[i].step < k
            /\ Cardinality({i \in 1..Len(sim.events) :
                               sim.events[i].event_type = "PositionClosed"}) = 1
            /\ sim_summary.total_fees = sim.cumulative_fees
            /\ sim_summary.final_il_pct = il_k
            /\ sim_summary.final_value =
                   C0 - (C0 * Abs(il_k)) \div 10000
                      + sim.cumulative_fees - sim.total_rebalance_cost

\* C14: within one step the strategy is evaluated before fees accrue.  When
\* a rebalance at step k moves the range so that it contains p_k, the
\* rebalance cost is charged in step k, the fee volume_k * fee_rate *
\* (lp_liquidity / pool_liquidity_k) is still accrued in step k and the step
\* counts as in range; when p_k is outside the range that holds after the
\* decision, no fee accrues in step k.
C14_StrategyBeforeFees ==
    [][(sim_pc = "loop" /\ sim_pc' = "loop" /\ sim' # sim)
         => LET cfg == sim_run.config
                p_k == sim_run.prices[sim.step + 1]
                fee == sim'.cumulative_fees - sim.cumulative_fees
                f_k == IF sim_run.liquidity > 0
                       THEN (sim_run.volume * cfg.fee_rate * cfg.pool_liquidity)
                                \div (100 * sim_run.liquidity)
                       ELSE 0
            IN  /\ (/\ sim'.rebalance_count = sim.rebalance_count + 1
                    /\ is_in_range(p_k, sim'.current_range))
                      => /\ sim'.total_rebalance_cost =
                                sim.total_rebalance_cost + cfg.rebalance_cost
                         /\ sim'.step = sim.step + 1
                         /\ fee = f_k
                         /\ sim'.steps_in_range = sim.steps_in_range + 1
                /\ ~is_in_range(p_k, sim'.current_range)
                      => /\ fee = 0
                         /\ sim'.steps_in_range = sim.steps_in_range]_vars

\* A step left the range, was rebalanced into a range holding its price and
\* earned its fee
C14_Witness ==
    /\ sim_pc = "loop"
    /\ \E i, j, l \in 1..Len(sim.events) :
          /\ sim.events[i].event_type = "OutOfRange"
          /\ sim.events[j].event_type = "Rebalance"
          /\ sim.events[l].event_type = "FeeCollection"
          /\ sim.events[i].step = sim.events[j].step
          /\ sim.events[j].step = sim.events[l].step
          /\ sim.events[l].amount > 0

\* Steps at which a run rebalanced
RebalanceSteps(events) ==
    {events[i].step : i \in {j \in 1..Len(events) : events[j].event_type = "Rebalance"}}

ConstantPrice(prices) == \A i \in 1..Len(prices) : prices[i] = prices[1]

\* C15: the run of 20 steps at the constant price 100 with a periodic
\* strategy of interval 5 and a rebalance cost of 1 performs exactly 3
\* rebalances, at steps 5, 10 and 15, for a total cost of 3; and, in
\* general, at a constant price a periodic strategy of interval n rebalances
\* at the steps n, 2n, 3n, ...
C15_PeriodicRebalancesAtMultiples ==
    /\ (SimReturned /\ sim_run = PeriodicTestRun)
          => /\ sim_summary.rebalance_count = 3
             /\ sim_summary.total_rebalance_cost = 3 * DefaultRebalanceCostCents
             /\ RebalanceSteps(sim.events) = {5, 10, 15}
    /\ (/\ SimReturned
        /\ sim_run.strategy.kind = "Periodic"
        /\ ~sim_run.strategy.only_when_out_of_range
        /\ ConstantPrice(sim_run.prices))
          => RebalanceSteps(sim.events) =
                 {k \in 1..(Len(sim_run.prices) - 1) :
                     k % sim_run.strategy.rebalance_interval = 0}

\* The tracker has been fed every step the simulator's loop entered
TrackerFed ==
    SimReturned /\ tracker.current_step = StepsEntered(sim)

\* Steps (counted from 0, as the simulator counts them) at which the
\* tracker rebalanced
TrackerRebalanceSteps(t) ==
    {i - 1 : i \in {j \in 1..Len(t.snapshots) : t.snapshots[j].action.type = "Rebalance"}}

\* C16: fed step by step the same prices, per-step fees and strategy,
\* PositionTracker::record_step yields the same rebalance steps and rebalance
\* count, the same per-step position value
\* V_k = C0 - C0 * |il_k| + F - total_rebalance_cost and the same final value
\* as simulate_with_strategy computes for that sequence.
C16_TrackerMatchesSimulator ==
    TrackerFed =>
        /\ TrackerRebalanceSteps(tracker) = RebalanceSteps(sim.events)
        /\ tracker.rebalance_count = sim_summary.rebalance_count
        /\ \A k \in 1..Len(sim.pnl_history) :
               tracker.snapshots[k].position_value_usd =
                   sim_run.config.initial_capital + sim.pnl_history[k]
        /\ tracker_summary(tracker).final_value = sim_summary.final_value

-----------------------------------------------------------------------------
(* Properties of the threshold strategy, checked under SpecEvaluate *)

\* C17: ThresholdRebalance::evaluate decides in a fixed priority: (i) with
\* max_il_pct set and |current_il| > max_il it returns Close{ILThreshold};
\* (ii) otherwise, with the price outside the range and
\* rebalance_on_out_of_range set, Rebalance{OutOfRange}; (iii) otherwise,
\* with |p - midpoint| / midpoint >= threshold_pct, Rebalance{PriceThreshold};
\* (iv) otherwise Hold.  So an exceeded loss limit wins over an out-of-range
\* price, and with the flag off an out-of-range price below the threshold
\* yields Hold.
C17_ThresholdPriority ==
    eval_call.called =>
        LET s == eval_call.strategy
            c == eval_call.context
            a == eval_call.action
            lower == c.current_range.lower_price
            upper == c.current_range.upper_price
            over_limit == s.max_il_pct # NoLimit /\ Abs(c.current_il_pct) > s.max_il_pct[1]
            outside == c.current_price < lower \/ c.current_price > upper
            moved == Abs(2 * c.current_price - (lower + upper)) * 100
                         >= s.threshold_pct * (lower + upper)
        IN  IF over_limit
            THEN a.type = "Close" /\ a.reason = "ILThreshold"
            ELSE IF outside /\ s.rebalance_on_out_of_range
            THEN a.type = "Rebalance" /\ a.reason = "OutOfRange"
            ELSE IF moved
            THEN a.type = "Rebalance" /\ a.reason = "PriceThreshold"
            ELSE a = Hold

\* The loss limit is exceeded at a price outside the range, with the
\* out-of-range flag set: the call returned Close
C17_Witness ==
    /\ eval_call.called
    /\ eval_call.strategy.max_il_pct # NoLimit
    /\ Abs(eval_call.context.current_il_pct) > eval_call.strategy.max_il_pct[1]
    /\ ~context_is_in_range(eval_call.context)
    /\ eval_call.strategy.rebalance_on_out_of_range
    /\ eval_call.action.type = "Close"

-----------------------------------------------------------------------------
(* Properties of the lifecycle tracker, checked under SpecLifecycle *)

\* No record_* call is in progress
Quiescent == \A task \in Tasks : tasks[task].pc = "idle"

EventsOf(log, event_type) == SelectSeq(log, LAMBDA e : e.event_type = event_type)

RECURSIVE SumTxCosts(_)
\* Sum of the tx costs of a sequence of Rebalanced events
SumTxCosts(log) ==
    IF log = <<>> THEN 0 ELSE Head(log).data.tx_cost_lamports + SumTxCosts(Tail(log))

RECURSIVE SumFeesUsd(_)
\* Sum of the fees_usd of a sequence of FeesCollected events
SumFeesUsd(log) ==
    IF log = <<>> THEN 0 ELSE Head(log).data.fees_usd + SumFeesUsd(Tail(log))

\* C18: after any sequence of record_position_opened, record_liquidity_change,
\* record_rebalance, record_fees_collected and record_position_closed calls,
\* every position with events has a summary, and that summary is the one
\* its event log gives when replayed: rebalance_count is the number of
\* Rebalanced events, total_tx_costs_lamports the sum of their tx costs,
\* total_fees_usd the sum of fees_usd of the FeesCollected events, and
\* is_open is false iff the log holds a PositionClosed event.
C18_SummaryMatchesLog ==
    Quiescent =>
        \A position \in DOMAIN lifecycle.events :
            /\ position \in DOMAIN lifecycle.summaries
            /\ LET log == lifecycle.events[position]
                   s == lifecycle.summaries[position]
               IN  /\ s.rebalance_count = Len(EventsOf(log, "Rebalanced"))
                   /\ s.total_tx_costs_lamports = SumTxCosts(EventsOf(log, "Rebalanced"))
                   /\ s.total_fees_usd = SumFeesUsd(EventsOf(log, "FeesCollected"))
                   /\ s.is_open = (EventsOf(log, "PositionClosed") = <<>>)

\* C19: under concurrent record_* calls for the same position, the
\* position's log is always in non-decreasing timestamp order: events are
\* appended in the order of their timestamps.
C19_LogInTimestampOrder ==
    \A position \in DOMAIN lifecycle.events :
        LET log == lifecycle.events[position]
        IN  \A i \in 1..(Len(log) - 1) : log[i].timestamp <= log[i + 1].timestamp

\* Task `task` appends its event in this step
Appends(task) == tasks[task].pc = "created" /\ tasks'[task].pc = "added"

\* C20: the log is append-only per position.  Every record_* call appends
\* exactly one event, its own, to the log of the position it names (it
\* returns only after that append, and appends nothing else), and every
\* step leaves every event recorded before, of every position, present,
\* unchanged and in its recorded order.
C20_LogAppendOnly ==
    [][/\ \A position \in DOMAIN lifecycle.events :
             /\ position \in DOMAIN lifecycle'.events
             /\ Len(lifecycle'.events[position]) >= Len(lifecycle.events[position])
             /\ SubSeq(lifecycle'.events[position], 1, Len(lifecycle.events[position]))
                    = lifecycle.events[position]
       /\ \A task \in Tasks :
             /\ Appends(task) =>
                   LET event == tasks[task].event[1]
                   IN  /\ get_events(lifecycle', event.position)
                              = Append(get_events(lifecycle, event.position), event)
                       /\ \A position \in (DOMAIN lifecycle'.events) \ {event.position} :
                              get_events(lifecycle', position) = get_events(lifecycle, position)
             /\ (tasks[task].pc # "idle" /\ tasks'[task].pc = "idle")
                   => tasks[task].pc = "added"
             /\ (tasks[task].pc = "idle" /\ tasks'[task].pc # "idle")
                   => tasks'[task].pc = "created"
       /\ (\A task \in Tasks : ~Appends(task))
             => lifecycle'.events = lifecycle.events]_vars

\* A position's log holds two events and another position's log one; every
\* call has returned
C20_Witness ==
    /\ Quiescent
    /\ \E p, q \in DOMAIN lifecycle.events :
          /\ p # q
          /\ Len(lifecycle.events[p]) >= 2
          /\ Len(lifecycle.events[q]) >= 1

-----------------------------------------------------------------------------
(* Properties of the reconciler *)

\* C21: in a reconcile cycle every tracked account whose last update is
\* older than max_age, or whose status is not InSync (NeedsUpdate, Updating
\* or Failed), is taken for re-fetching; only accounts that are InSync and
\* not older than max_age are skipped and counted as in_sync.
C21_StaleAccountsRefetched ==
    (reconciler.last_op.op = "check" /\ reconciler.last_op.before # NoAccount)
        => (reconciler.last_op.needs
               <=> reconciler.last_op.address
                       \in get_stale_accounts(reconciler.accounts, reconciler.cycle.now,
                                              reconciler.config))

\* C22: failure counting.  An InSync account always has failure_count = 0
\* (a successful fetch and a push update zero the counter, and a failed fetch
\* counts on an account that is being updated), and an account is Failed only
\* with at least max_failures failures counted since the last success.
C22_FailureCounting ==
    \A address \in Addresses :
        reconciler.accounts[address] # NoAccount =>
            LET state == reconciler.accounts[address][1]
            IN  /\ state.status = "InSync" => state.failure_count = 0
                /\ state.status = "Failed" => state.failure_count >= reconciler.config.max_failures

\* C23: process_update for a tracked account sets its status to InSync, its
\* last_slot to the slot of the update (the chain's slot when the update was
\* produced) and its failure_count to 0, whatever its status was, and leaves
\* every other account alone; for an address that is not tracked it changes
\* no account and creates no entry.
C23_ProcessUpdate ==
    [][(reconciler'.last_op.op = "process_update" /\ reconciler' # reconciler) =>
          LET address == reconciler'.last_op.address
          IN  /\ \A other \in Addresses \ {address} :
                     reconciler'.accounts[other] = reconciler.accounts[other]
              /\ IF reconciler.accounts[address] # NoAccount
                 THEN /\ reconciler'.accounts[address] # NoAccount
                      /\ reconciler'.accounts[address][1].status = "InSync"
                      /\ reconciler'.accounts[address][1].last_slot = reconciler.chain_slot
                      /\ reconciler'.accounts[address][1].failure_count = 0
                 ELSE reconciler'.accounts[address] = NoAccount]_vars

\* A push update has just brought a Failed account back in sync
C23_Witness ==
    /\ reconciler.last_op.op = "process_update"
    /\ reconciler.last_op.before # NoAccount
    /\ reconciler.last_op.before[1].status = "Failed"
    /\ reconciler.accounts[reconciler.last_op.address] # NoAccount
    /\ reconciler.accounts[reconciler.last_op.address][1].status = "InSync"
    /\ reconciler.accounts[reconciler.last_op.address][1].failure_count = 0

\* C24: per-account transitions are linearizable; in particular a pull that
\* started before a push never overwrites the pushed slot with an older one:
\* the last_slot of an account that stays tracked never decreases.
C24_LastSlotNeverDecreases ==
    [][\A address \in Addresses :
          (/\ reconciler.accounts[address] # NoAccount
           /\ reconciler'.accounts[address] # NoAccount
           /\ reconciler'.last_op.op # "track_account")
              => reconciler'.accounts[address][1].last_slot
                     >= reconciler.accounts[address][1].last_slot]_vars

-----------------------------------------------------------------------------
(* Properties of the emergency exit manager *)

\* The exit_all calls that are running a sweep
Sweeping(mgr) == {caller \in Callers : mgr.calls[caller].pc \in SweepPcs}

\* C25: at most one exit_all sweep runs at a time, and in_progress is true
\* exactly while one is running (false again once it has returned).  A call
\* that begins while a sweep is in progress makes no exit step, stores
\* nothing and returns the stored results; a call that begins when none is
\* in progress starts a sweep.
C25_OneSweepAtATime ==
    [][/\ Cardinality(Sweeping(exit_mgr')) <= 1
       /\ exit_mgr'.in_progress <=> (Sweeping(exit_mgr') # {})
       /\ (exit_mgr'.begun = exit_mgr.begun + 1) =>
             IF exit_mgr.in_progress
             THEN /\ exit_mgr'.calls = exit_mgr.calls
                  /\ exit_mgr'.results = exit_mgr.results
                  /\ exit_mgr'.last_return # <<>>
                  /\ ~exit_mgr'.last_return[1].swept
                  /\ exit_mgr'.last_return[1].ret = exit_mgr.results
             ELSE /\ Sweeping(exit_mgr) = {}
                  /\ Cardinality(Sweeping(exit_mgr')) = 1]_vars

\* A call made during the second sweep has returned the results that the
\* first sweep stored
C25_Witness ==
    /\ exit_mgr.in_progress
    /\ exit_mgr.last_return # <<>>
    /\ ~exit_mgr.last_return[1].swept
    /\ exit_mgr.last_return[1].ret # <<>>
    /\ exit_mgr.last_return[1].ret = exit_mgr.results
    /\ \E caller \in Callers : exit_mgr.calls[caller].pc \in {"collect_fees", "decrease", "close"}

\* The names of the steps an exit_position call made, in order
StepNames(steps) == [i \in 1..Len(steps) |-> steps[i].step]

\* C26: exit_position runs collect fees (only if configured), then decrease
\* liquidity, then close position, in that order.  A fee-collection failure
\* is ignored; a decrease failure gives Failed with the error and close is not
\* attempted; a close failure gives Failed; the status is Completed only when
\* decrease and close both succeeded.  The returned status is always
\* Completed or Failed, with error set iff Failed.
C26_ExitPositionSequence ==
    \A caller \in Callers :
        exit_mgr.calls[caller].last_exit # <<>> =>
            LET exit_result == exit_mgr.calls[caller].last_exit[1].result
                steps == exit_mgr.calls[caller].last_exit[1].steps
                first == IF exit_mgr.config.collect_fees THEN <<"collect_fees">> ELSE <<>>
                decrease == steps[Len(first) + 1]
            IN  /\ StepNames(steps) \in {first \o <<"decrease_all_liquidity">>,
                                         first \o <<"decrease_all_liquidity", "close_position">>}
                /\ (decrease.outcome = "Err") <=> (Len(steps) = Len(first) + 1)
                /\ exit_result.status \in {"Completed", "Failed"}
                /\ (exit_result.status = "Completed")
                       <=> (/\ decrease.outcome = "Ok"
                            /\ Len(steps) = Len(first) + 2
                            /\ steps[Len(first) + 2].outcome = "Ok")
                /\ (exit_result.error # <<>>) <=> (exit_result.status = "Failed")
                /\ (exit_result.liquidity_removed # <<>>) <=> (decrease.outcome = "Ok")

\* An exit_position whose fee collection failed has returned Completed
C26_Witness ==
    \E caller \in Callers :
        /\ exit_mgr.calls[caller].last_exit # <<>>
        /\ exit_mgr.calls[caller].last_exit[1].steps[1] = ExitStep("collect_fees", "Err")
        /\ exit_mgr.calls[caller].last_exit[1].result.status = "Completed"
        /\ exit_mgr.calls[caller].last_exit[1].result.fees_collected = <<>>

\* C27: exit_all never fails as a whole.  A call that ran a sweep returns
\* exactly one ExitResult, Completed or Failed, for each position the monitor
\* held when the sweep read it, in that order, whatever the outcome of the
\* positions before; and the set it returns is what get_results returns then.
C27_OneResultPerPosition ==
    [][\A caller \in Callers :
          (exit_mgr.calls[caller].pc = "clear" /\ exit_mgr'.calls[caller].pc = "idle") =>
              LET returned == exit_mgr'.last_return[1]
                  snapshot == exit_mgr.calls[caller].snapshot
              IN  /\ returned.caller = caller
                  /\ returned.swept
                  /\ Len(returned.ret) = Len(snapshot)
                  /\ \A i \in 1..Len(snapshot) :
                         /\ returned.ret[i].position = snapshot[i]
                         /\ returned.ret[i].status \in {"Completed", "Failed"}
                  /\ exit_mgr'.results = returned.ret]_vars

\* A sweep has returned a Failed result followed by a Completed one, for
\* positions that the monitor no longer holds in that form
C27_Witness ==
    /\ exit_mgr.last_return # <<>>
    /\ exit_mgr.last_return[1].swept
    /\ Len(exit_mgr.last_return[1].ret) = 2
    /\ exit_mgr.last_return[1].ret[1].status = "Failed"
    /\ exit_mgr.last_return[1].ret[2].status = "Completed"
    /\ exit_mgr.results = exit_mgr.last_return[1].ret
    /\ Len(exit_mgr.monitored) # 2
    /\ ~exit_mgr.in_progress

-----------------------------------------------------------------------------
(* Properties of the scheduler *)

\* The events of a list that name a task
EventsFor(events, name) == {k \in 1..Len(events) : events[k].task_name = name}

\* C28: on each tick a TaskEvent is collected, and then sent, for a task iff
\* the task is enabled and now >= its next_run; the event carries
\* scheduled_at = that next_run and triggered_at = now; the task's last_run
\* becomes now and its next_run is recomputed from now by schedule type
\* (Interval(d): now + d, Daily: now + 24 h, Cron: now + 1 h).  A task that
\* is disabled or not due yields no event and is left as it was, and a task
\* yields at most one event per tick.
C28_TickDispatch ==
    [][/\ (scheduler.pc = "waiting" /\ scheduler'.pc # "waiting") =>
             LET instant == scheduler'.instant
                 events == scheduler'.events_to_send
             IN  /\ Len(scheduler'.tasks) = Len(scheduler.tasks)
                 /\ \A k \in 1..Len(events) :
                        \E i \in 1..Len(scheduler.tasks) : events[k].task_name = scheduler.tasks[i].name
                 /\ \A i \in 1..Len(scheduler.tasks) :
                        LET task == scheduler.tasks[i]
                            after == scheduler'.tasks[i]
                            mine == EventsFor(events, task.name)
                        IN  IF task.enabled /\ task.next_run # NoInstant /\ instant >= task.next_run[1]
                            THEN /\ Cardinality(mine) = 1
                                 /\ \A k \in mine :
                                        /\ events[k].scheduled_at = task.next_run[1]
                                        /\ events[k].triggered_at = instant
                                 /\ after.last_run = Some(instant)
                                 /\ task.schedule.kind = "Interval"
                                        => after.next_run = Some(instant + task.schedule.secs)
                                 /\ task.schedule.kind = "Daily"
                                        => after.next_run = Some(instant + SecsPerDay)
                                 /\ task.schedule.kind = "Cron"
                                        => after.next_run = Some(instant + SecsPerHour)
                                 /\ after.enabled /\ after.schedule = task.schedule
                            ELSE /\ mine = {}
                                 /\ after = task
       /\ (scheduler.pc = "sending" /\ scheduler'.sent # scheduler.sent) =>
             /\ Len(scheduler'.sent) = Len(scheduler.sent) + 1
             /\ scheduler'.sent[Len(scheduler'.sent)].event = Head(scheduler.events_to_send)
             /\ scheduler'.events_to_send = Tail(scheduler.events_to_send)
             /\ scheduler'.tasks = scheduler.tasks
       /\ (scheduler.pc # "sending") => scheduler'.sent = scheduler.sent]_vars

\* The event of an Interval task that was triggered late has been sent and
\* delivered, while a disabled task that is past its next_run has never run
C28_Witness ==
    /\ Len(scheduler.tasks) = 2
    /\ scheduler.tasks[1].schedule.kind = "Interval"
    /\ ~scheduler.tasks[2].enabled
    /\ scheduler.tasks[2].last_run = NoInstant
    /\ scheduler.tasks[2].next_run # NoInstant
    /\ scheduler.tasks[2].next_run[1] <= scheduler.instant
    /\ \E k \in 1..Len(scheduler.sent) :
          /\ scheduler.sent[k].event.task_name = scheduler.tasks[1].name
          /\ scheduler.sent[k].event.scheduled_at < scheduler.sent[k].event.triggered_at
          /\ scheduler.sent[k].delivered

SendsFor(name) == {k \in 1..Len(scheduler.sent) : scheduler.sent[k].event.task_name = name}

\* C30: a task whose schedule is Once(delay) is dispatched at most once
\* however long the scheduler runs, and not before delay has elapsed since
\* the scheduler started.
C30_OnceRunsOnce ==
    \A i \in 1..Len(scheduler.tasks) :
        scheduler.tasks[i].schedule.kind = "Once" =>
            /\ Cardinality(SendsFor(scheduler.tasks[i].name)) <= 1
            /\ \A k \in SendsFor(scheduler.tasks[i].name) :
                   /\ scheduler.started_at # NoInstant
                   /\ scheduler.sent[k].event.triggered_at
                          >= scheduler.started_at[1] + scheduler.tasks[i].schedule.secs

-----------------------------------------------------------------------------
(* Threshold checks and reset of the circuit breaker, checked under
   SpecBreaker *)

\* C31: check_loss(p) returns false and leaves the breaker Open with
\* opened_at = now iff |p| > max_loss_pct, and check_priority_fee(f) returns
\* false and leaves the breaker Open iff f > max_priority_fee_lamports; when
\* the threshold is not exceeded they return true and leave state, counters,
\* manual flag and opened_at unchanged.  Stated for every argument in every
\* reachable breaker state, and every check_loss / check_priority_fee call
\* is one of these.
C31_ThresholdChecks ==
    /\ [](\A p \in LossValues :
            LET r == check_loss(breaker, now, p)
            IN IF Abs(p) > config.max_loss_pct
               THEN /\ r.ret = FALSE
                    /\ r.cb.state = "Open"
                    /\ r.cb.opened_at = Some(now)
               ELSE r.ret = TRUE /\ r.cb = breaker)
    /\ [](\A f \in FeeValues :
            LET r == check_priority_fee(breaker, now, f)
            IN IF f > config.max_priority_fee_lamports
               THEN /\ r.ret = FALSE
                    /\ r.cb.state = "Open"
                    /\ r.cb.opened_at = Some(now)
               ELSE r.ret = TRUE /\ r.cb = breaker)
    /\ [][/\ (CallCheckLoss =>
                \E p \in LossValues :
                    /\ breaker' = check_loss(breaker, now, p).cb
                    /\ ret' = check_loss(breaker, now, p).ret)
          /\ (CallCheckLoss \/ CallCheckPriorityFee =>
                \/ ret' = TRUE /\ breaker' = breaker
                \/ /\ ret' = FALSE
                   /\ breaker'.state = "Open"
                   /\ breaker'.opened_at = Some(now))]_vars

\* C31's case: after the clock has advanced, a check_loss call on a
\* HalfOpen or Closed breaker returned false and opened it at the current
\* time (the earlier opened_at, if any, was replaced).
C31_Witness ==
    /\ last_op = "check_loss"
    /\ ret = FALSE
    /\ now > 0
    /\ breaker.state = "Open"
    /\ breaker.opened_at = Some(now)
    /\ ~breaker.manually_tripped

\* C32: reset, called in any state (also after manual_trip), leaves the
\* breaker Closed with failure count 0, success count 0, manual flag and
\* opened_at cleared, and the is_allowed that follows returns true.
C32_ResetRestoresClosed ==
    [][/\ (CallReset => breaker' = NewBreaker)
       /\ (CallIsAllowed /\ last_op = "reset" =>
                ret' = TRUE /\ breaker' = breaker)]_vars

\* C32's case: reset has just been called on a breaker that had left Closed
\* (it had been HalfOpen with one success of the two needed, and nothing
\* but reset leads from there to Closed with that count of successes), and
\* the breaker is Closed and clean.
C32_Witness ==
    /\ last_op = "reset"
    /\ breaker = NewBreaker
    /\ config.success_threshold = 2
    /\ episode_successes = 1
    /\ now > 0

-----------------------------------------------------------------------------
(* Properties of the circuit breaker shared by several tasks, checked under
   SpecBreakerTasks *)

\* C33: tripping is atomic with respect to is_allowed: no is_allowed moves
\* the breaker from Open to HalfOpen (and returns true) less than
\* recovery_timeout after the latest trip set the state to Open, whatever
\* the interleaving of the two; an opened_at left by an earlier trip never
\* ends a new Open period.
C33_TripAtomicForIsAllowed ==
    [][breaker.state = "Open" /\ breaker'.state = "HalfOpen" =>
          /\ breaker_calls.last_trip # NoInstant
          /\ Elapsed(breaker_calls.last_trip, now) >= config.recovery_timeout_secs]_vars

\* C39: whenever no call is in progress and the breaker is Closed, its
\* failure_count is strictly below max_failures, after any interleaving of
\* record_failure, record_success, check_loss, check_priority_fee,
\* manual_trip, reset_manual_trip, reset and is_allowed calls.
C39_ClosedBelowMaxFailures ==
    (/\ \A task \in BreakerTasks : breaker_calls.calls[task].pc = "idle"
     /\ breaker.state = "Closed")
        => breaker.failure_count < config.max_failures

-----------------------------------------------------------------------------
(* Where a rebalance is recorded, checked under SpecRebalance *)

\* StrategyExecutor::calculate_hours_since_rebalance: the hours since the
\* last Rebalanced event of the position, else since its opening, else
\* u64::MAX (since = "never", no number of hours).
calculate_hours_since_rebalance(lc, position, t) ==
    LET rebalances == EventsOf(get_events(lc, position), "Rebalanced")
        hours(from) == IF t - from < 0 THEN 0 ELSE (t - from) \div SecsPerHour
    IN IF rebalances # <<>>
       THEN [since |-> "rebalance", hours |-> hours(rebalances[Len(rebalances)].timestamp)]
       ELSE IF position \in DOMAIN lc.summaries
       THEN [since |-> "opened", hours |-> hours(lc.summaries[position].opened_at)]
       ELSE [since |-> "never"]

\* C34: a successful execute that is not a dry run is recorded in the log
\* of the position that was rebalanced (params.position): after the call
\* that position's log has one more Rebalanced event, its summary's
\* rebalance_count is one higher, and calculate_hours_since_rebalance for
\* it is measured from the rebalance, 0 hours ago.
C34_RebalanceRecordedForPosition ==
    [][LET position == last_call'.params.position
       IN (ExecuteReturns /\ ~dry_run /\ result'.success) =>
            /\ Len(EventsOf(get_events(lifecycle', position), "Rebalanced"))
                 = Len(EventsOf(get_events(lifecycle, position), "Rebalanced")) + 1
            /\ position \in DOMAIN lifecycle.summaries =>
                 lifecycle'.summaries[position].rebalance_count
                   = lifecycle.summaries[position].rebalance_count + 1
            /\ calculate_hours_since_rebalance(lifecycle', position, utc_now)
                 = [since |-> "rebalance", hours |-> 0]]_vars

-----------------------------------------------------------------------------
(* The transient status of the reconciler, checked under SpecReconciler *)

\* C35: Updating is a transient status: whenever no reconcile() is in
\* progress, no tracked account has status Updating; an account whose fetch
\* failed ends the cycle NeedsUpdate or Failed.
C35_UpdatingIsTransient ==
    reconciler.pc = "idle" =>
        \A address \in DOMAIN reconciler.accounts :
            reconciler.accounts[address] # NoAccount =>
                reconciler.accounts[address][1].status # "Updating"

-----------------------------------------------------------------------------
(* The event log and the counters of the simulator, checked under SpecSim *)

\* The OutOfRange and BackInRange events of a log, in order
RangeEvents(events) ==
    SelectSeq(events, LAMBDA e : e.event_type \in {"OutOfRange", "BackInRange"})

\* C36: in the event log of a simulation OutOfRange and BackInRange events
\* strictly alternate, also when a rebalance changes the range in between:
\* no two consecutive range events have the same type.
C36_RangeEventsAlternate ==
    LET log == RangeEvents(sim.events)
    IN \A i \in 1..Len(log) :
          i > 1 => log[i].event_type # log[i - 1].event_type

\* C37: after every step of simulate_with_strategy, total_rebalance_cost =
\* rebalance_count * rebalance_cost, the log holds rebalance_count Rebalance
\* events, range_history has rebalance_count + 1 entries with non-decreasing
\* step numbers, the last of them the current range, and steps_in_range is
\* at most the number of steps processed (at most total_steps in the
\* summary, so time_in_range_pct lies in [0, 1]).
C37_RebalanceBookkeeping ==
    /\ sim.range_history # <<>> =>
          /\ sim.total_rebalance_cost = sim.rebalance_count * sim_run.config.rebalance_cost
          /\ Len(EventsOf(sim.events, "Rebalance")) = sim.rebalance_count
          /\ Len(sim.range_history) = sim.rebalance_count + 1
          /\ \A i \in 1..Len(sim.range_history) :
                i > 1 => sim.range_history[i - 1][1] <= sim.range_history[i][1]
          /\ sim.range_history[Len(sim.range_history)][2] = sim.current_range
          /\ sim.steps_in_range <= sim.step
    /\ sim_pc = "done" =>
          /\ sim_summary.steps_in_range <= sim_summary.total_steps
          /\ sim_summary.rebalance_count = sim.rebalance_count
          /\ sim_summary.total_rebalance_cost =
                sim_summary.rebalance_count * sim_run.config.rebalance_cost

\* C37's case: a run has returned after two rebalances at different steps
\* and at least one step out of range.
C37_Witness ==
    /\ sim_pc = "done"
    /\ sim.rebalance_count = 2
    /\ sim.total_rebalance_cost = 2 * DefaultRebalanceCostCents
    /\ sim.range_history[2][1] < sim.range_history[3][1]
    /\ sim.steps_in_range < sim.step
    /\ sim_summary.total_steps = sim.step

-----------------------------------------------------------------------------
(* simulate_position (position_simulator.rs): the simulator without a
   strategy, as a function of the run; compared with simulate_with_strategy
   under SpecSim *)

\* The locals of simulate_position when the loop is entered
PositionLocals(run) ==
    [step |-> 0,
     cumulative_fees |-> 0,
     steps_in_range |-> 0,
     max_il |-> 0,
     was_in_range |-> is_in_range(run.prices[1], run.config.initial_range),
     pnl_history |-> <<>>,
     il_history |-> <<>>,
     fee_history |-> <<>>,
     events |-> << SimulationEvent("PositionOpened", 0, run.prices[1],
                                   run.config.initial_capital, 0) >>]

\* initial_capital - initial_capital * |il| + cumulative_fees
held_position_value(initial_capital, il_pct, fees) ==
    initial_capital - (initial_capital * Abs(il_pct)) \div 10000 + fees

\* One iteration of the loop of simulate_position
position_step(run, s) ==
    LET cfg == run.config
        range == cfg.initial_range
        step == s.step
        price == run.prices[step + 1]
        in_range == is_in_range(price, range)
        events1 ==
            IF in_range /\ ~s.was_in_range
            THEN Append(s.events, SimulationEvent("BackInRange", step, price, 0, 0))
            ELSE IF ~in_range /\ s.was_in_range
            THEN Append(s.events, SimulationEvent("OutOfRange", step, price, 0, 0))
            ELSE s.events
        fees == IF in_range THEN step_fees(cfg, run.volume, run.liquidity) ELSE 0
        cumulative_fees == s.cumulative_fees + fees
        events2 ==
            IF in_range /\ fees > 0
            THEN Append(events1, SimulationEvent("FeeCollection", step, price, fees, 0))
            ELSE events1
        il_decimal == calculate_il_concentrated(run.prices[1], price,
                          range.lower_price, range.upper_price)
        value == held_position_value(cfg.initial_capital, il_decimal, cumulative_fees)
    IN  [s EXCEPT
            !.step = step + 1,
            !.was_in_range = in_range,
            !.steps_in_range = IF in_range THEN @ + 1 ELSE @,
            !.cumulative_fees = cumulative_fees,
            !.max_il = IF il_decimal < @ THEN il_decimal ELSE @,
            !.events = events2,
            !.pnl_history = Append(@, value - cfg.initial_capital),
            !.il_history = Append(@, il_decimal),
            !.fee_history = Append(@, cumulative_fees)]

RECURSIVE position_loop(_, _)
\* The loop of simulate_position over the whole path
position_loop(run, s) ==
    IF s.step = Len(run.prices) THEN s ELSE position_loop(run, position_step(run, s))

\* A simulation result: the summary, the events and the three histories
SimulationResult(summary, events, pnl_history, il_history, fee_history) ==
    [summary |-> summary, events |-> events, pnl_history |-> pnl_history,
     il_history |-> il_history, fee_history |-> fee_history]

\* simulate_position
simulate_position(run) ==
    IF Len(run.prices) = 0
    THEN SimulationResult(empty_result(run.config), <<>>, <<>>, <<>>, <<>>)
    ELSE
    LET cfg == run.config
        s == position_loop(run, PositionLocals(run))
        entry_price == run.prices[1]
        final_price == run.prices[Len(run.prices)]
        final_il_decimal == calculate_il_concentrated(entry_price, final_price,
                                cfg.initial_range.lower_price, cfg.initial_range.upper_price)
        final_value == held_position_value(cfg.initial_capital, final_il_decimal,
                                           s.cumulative_fees)
        summary ==
            [entry_price |-> entry_price, final_price |-> final_price,
             total_steps |-> Len(run.prices), steps_in_range |-> s.steps_in_range,
             final_value |-> final_value, total_fees |-> s.cumulative_fees,
             final_il_pct |-> final_il_decimal,
             net_pnl |-> final_value - cfg.initial_capital,
             rebalance_count |-> 0, total_rebalance_cost |-> 0,
             max_il_pct |-> s.max_il]
    IN  SimulationResult(summary,
            Append(s.events, SimulationEvent("PositionClosed", Len(run.prices),
                                 final_price, final_value, final_il_decimal)),
            s.pnl_history, s.il_history, s.fee_history)

\* C38: simulate_with_strategy run with StaticRange returns the same
\* summary (rebalance fields zero in both), the same event sequence and the
\* same pnl, il and fee histories as simulate_position for the same config,
\* price path, volume model and liquidity model, for every price path.
C38_StaticEqualsSimulatePosition ==
    (sim_pc = "done" /\ sim_run.strategy = StaticRange) =>
        SimulationResult(sim_summary, sim.events, sim.pnl_history,
                         sim.il_history, sim.fee_history)
            = simulate_position(sim_run)

\* C38's case: a static run has returned over a path that left the range
\* and came back, with fees collected.
C38_Witness ==
    /\ sim_pc = "done"
    /\ sim_run.strategy = StaticRange
    /\ HasEvent(sim.events, "OutOfRange")
    /\ HasEvent(sim.events, "BackInRange")
    /\ HasEvent(sim.events, "FeeCollection")
    /\ sim_summary.steps_in_range < sim_summary.total_steps
    /\ sim_summary.max_il_pct < 0

-----------------------------------------------------------------------------
(* Termination of the scheduler's loop, checked under SpecSchedulerLoop *)

\* start() is in its loop and stop() has cleared the running flag
StopRequested ==
    /\ scheduler.pc \in {"head", "waiting", "sending"}
    /\ ~scheduler.running

====
